---- MODULE Spec2Model ----
(***************************************************************************)
(* Order webhook, Flow actions and loyalty redemption of the afforestation *)
(* Shopify app: trigger-rule evaluation, spend-limit guard, ledger write.  *)
(*                                                                         *)
(* JavaScript numbers that carry fractions (money, rule values, kg of CO2, *)
(* the running treesToPlant) are held in hundredths: 50 is 0.50, 250 is    *)
(* 2.5.  Tree counts written to the ledger, quantities and points are      *)
(* plain integers.  A nullable column is <<>> (null) or <<v>>.             *)
(***************************************************************************)
EXTENDS Integers, Sequences, FiniteSets, TLC

VARIABLES
  settings,      \* shopify_settings rows: shop domain -> row (absent: no row)
  shopRecords,   \* shopify_shops rows: shop domain -> record id
  ledger,        \* impact_ledger rows, in insertion order
  flowLog,       \* shopify_flow_log rows
  redemptions,   \* shopify_loyalty_redemptions rows
  req,           \* order-webhook requests in flight: handler -> its locals
  lastResp,      \* response of the last Flow / loyalty request
  ops,           \* number of Flow / loyalty / dashboard requests served
  evalIn,        \* rule evaluator harness: the inputs drawn
  evalOut,       \* rule evaluator harness: the outcome computed
  clock,         \* the calendar month the server's clock is in
  created,       \* impact_ledger.created_at, as a month, row by row
  issued,        \* <<shop, key, live>>: the loyalty API keys handed out so far
  inactive       \* shops whose shopify_shops record has isActive = false

vars == <<settings, shopRecords, ledger, flowLog, redemptions, req, lastResp,
          ops, evalIn, evalOut, clock, created, issued, inactive>>

\* impact_ledger.created_at: every row inserted in this step carries the
\* month of the insert
Stamped ==
  created' = created \o [i \in 1..(Len(ledger') - Len(ledger)) |-> clock]

\* a request handler reads the clock and draws no key
Served == Stamped /\ UNCHANGED <<clock, issued, inactive>>

\* the keys stored in the settings rows, each with the shop that holds it
StoredKeys(rows) ==
  {<<shop, rows[shop].loyaltyApiKey[1], TRUE>> :
     shop \in {d \in DOMAIN rows : rows[d].loyaltyApiKey # <<>>}}

-----------------------------------------------------------------------------
(* Nullable values and numbers *)

None == <<>>
Some(v) == <<v>>
IsNull(o) == o = <<>>
Val(o) == o[1]

\* a ?? d
OrElse(o, d) == IF IsNull(o) THEN d ELSE Val(o)

\* a || d  for a nullable number: null and 0 are both falsy
OrDefault(o, d) == IF IsNull(o) \/ Val(o) = 0 THEN d ELSE Val(o)

\* truthiness of a nullable number
Truthy(o) == ~IsNull(o) /\ Val(o) # 0

\* Math.floor and Math.round of a number held in hundredths
Floor(x) == x \div 100
Round(x) == (x + 50) \div 100

\* an integer as a number held in hundredths
Num(n) == n * 100

Max(a, b) == IF a >= b THEN a ELSE b

\* NaN, what parseFloat reads from a string that is not a number: a value
\* apart from every number the model computes. Arithmetic on it yields NaN
\* and every comparison with it is false.
NaN == -999999
IsNaN(x) == x = NaN

\* a + b
Plus(a, b) == IF IsNaN(a) \/ IsNaN(b) THEN NaN ELSE a + b

\* an integer (or NaN) as a number held in hundredths
NumOrNaN(n) == IF IsNaN(n) THEN NaN ELSE Num(n)

-----------------------------------------------------------------------------
(* Program constants *)

CO2_PER_TREE_KG == 20
FlowCo2PerTree == 24
DefaultCostPerTree == 50
DefaultCostPerKgCo2 == 20
DefaultPointsPerTree == 200

-----------------------------------------------------------------------------
(* Strings: trim() and toLowerCase() over the tag strings the model uses *)

TagStrings == {"eco", "Eco", " eco ", "sale", " ", ""}

Trim(t) ==
  CASE t = " eco " -> "eco"
    [] t = " "     -> ""
    [] OTHER       -> t

ToLower(t) ==
  CASE t = "Eco" -> "eco"
    [] OTHER     -> t

-----------------------------------------------------------------------------
(* Product identifiers and the shop's catalog *)

\* a line item's product_id: a number, a gid string, or missing
NumId(n) == [kind |-> "num", n |-> n]
GidId(n) == [kind |-> "gid", n |-> n]
NoId == [kind |-> "null", n |-> 0]

\* typeof pid === "number" ? `gid://shopify/Product/${pid}` : pid
ToGid(pid) == IF pid.kind = "num" THEN GidId(pid.n) ELSE pid

\* the tags of the products the commerce platform knows (product 3 is unknown)
Catalog == (GidId(1) :> {"Eco", "sale"}) @@ (GidId(2) :> {"sale"})

\* a variant that answers with the catalog's tags even when the API call
\* fails; C15 does not hold of it
fetchProductTagsUnfailing(productIds, apiOk) ==
  LET ids == {ToGid(id) : id \in {p \in productIds : p.kind # "null"}}
  IN IF productIds = {} \/ ids = {}
       THEN <<>>
       ELSE [g \in ids \cap DOMAIN Catalog |-> Catalog[g]]

\* fetchProductTags: gid -> tags for the known products among productIds;
\* an API error yields the empty map
fetchProductTags(productIds, apiOk) ==
  LET ids == {ToGid(id) : id \in {p \in productIds : p.kind # "null"}}
  IN IF productIds = {} \/ ids = {} \/ ~apiOk
       THEN <<>>
       ELSE [g \in ids \cap DOMAIN Catalog |-> Catalog[g]]

-----------------------------------------------------------------------------
(* Rule evaluator *)

\* typeof item.quantity === "number" ? item.quantity : 1
Qty(item) == OrElse(item.quantity, 1)

RECURSIVE SumUnits(_, _)
\* lineItems.reduce((sum, item) => sum + qty * perUnit, 0)
SumUnits(lineItems, perUnit) ==
  IF lineItems = <<>> THEN 0
  ELSE Qty(Head(lineItems)) * perUnit + SumUnits(Tail(lineItems), perUnit)

\* the per_tag loop's test for one line item
HasTag(item, tagLower, productIdToTags) ==
  /\ item.product_id.kind # "null"
  /\ LET gid == ToGid(item.product_id)
         tags == IF gid \in DOMAIN productIdToTags THEN productIdToTags[gid] ELSE {}
     IN \E t \in tags : ToLower(t) = tagLower

RECURSIVE TagMatches(_, _, _)
TagMatches(lineItems, tagLower, productIdToTags) ==
  IF lineItems = <<>> THEN 0
  ELSE (IF HasTag(Head(lineItems), tagLower, productIdToTags)
          THEN Qty(Head(lineItems)) ELSE 0)
       + TagMatches(Tail(lineItems), tagLower, productIdToTags)

\* a variant that prices every tree at the default 0.50 whatever the shop
\* has configured; C10 does not hold of it
PercentageTreesFixedCost(totalAmount, value, costPerTree) ==
  IF IsNaN(totalAmount) THEN NaN
  ELSE (totalAmount * value) \div (10000 * DefaultCostPerTree)

\* the donation of a percentage rule, in trees:
\* floor(totalAmount * (value / 100) / costPerTree)
PercentageTrees(totalAmount, value, costPerTree) ==
  IF IsNaN(totalAmount) THEN NaN
  ELSE (totalAmount * value) \div (10000 * costPerTree)

\* a variant that ignores the rule's minimum order value; C11 does not hold
\* of it
ThresholdTreesNoMinimum(totalAmount, value, min) ==
  IF IsNaN(totalAmount) THEN NaN ELSE totalAmount \div value

\* case "threshold": min is rule.minOrderValue ?? 0
ThresholdTrees(totalAmount, value, min) ==
  IF min > 0 /\ ~IsNaN(totalAmount) /\ totalAmount < min THEN 0
  ELSE IF IsNaN(totalAmount) THEN NaN
  ELSE totalAmount \div value

treesFromRule(rule, totalAmount, lineItems, productIdToTags, costPerTree) ==
  IF ~rule.enabled THEN 0
  ELSE CASE rule.type = "fixed" -> Floor(rule.value)
         [] rule.type = "per_product" ->
              SumUnits(lineItems, Max(1, Floor(rule.value)))
         [] rule.type = "per_tag" ->
              IF IsNull(rule.tag) \/ Trim(Val(rule.tag)) = "" THEN 0
              ELSE TagMatches(lineItems, ToLower(Trim(Val(rule.tag))), productIdToTags)
                   * Max(1, Floor(rule.value))
         [] rule.type = "threshold" ->
              ThresholdTrees(totalAmount, rule.value, OrElse(rule.minOrderValue, 0))
         [] rule.type = "percentage" ->
              PercentageTrees(totalAmount, rule.value, costPerTree)
         [] OTHER -> 0

-----------------------------------------------------------------------------
(* Order webhook: the computation between the settings read and the writes *)

OrderTopics == {"ORDERS_PAID", "ORDERS_CREATE"}

\* topic !== "ORDERS_PAID" && topic !== "ORDERS_CREATE"
TopicIgnored(topic) == topic \notin OrderTopics

\* !settings || !settings.isEnabled
IsDisabled(hasRow, st) == ~hasRow \/ ~st.isEnabled

\* a variant that never sees the pause; C1 does not hold of it
IsPausedIgnored(st) == FALSE

\* settings.isPaused
IsPaused(st) == st.isPaused

\* parseFloat(payload.total_price || "0"): a missing total_price reads as 0,
\* a present one as the number (or NaN) parseFloat makes of it
TotalAmount(order) == OrElse(order.total_price, 0)

\* settings.costPerTree ?? 0.5
CostPerTree(st) == OrElse(st.costPerTree, DefaultCostPerTree)

\* a variant that takes the rule list only when one of its rules is enabled,
\* and the legacy trigger otherwise; C30 does not hold of it
HasRuleListEnabled(st) ==
  /\ ~IsNull(st.triggerRules)
  /\ \E i \in DOMAIN Val(st.triggerRules) : Val(st.triggerRules)[i].enabled

\* Array.isArray(triggerRules) && triggerRules.length > 0
HasRuleList(st) == ~IsNull(st.triggerRules) /\ Len(Val(st.triggerRules)) > 0

\* triggerRules.filter((r) => r.enabled)
EnabledRules(st) == SelectSeq(Val(st.triggerRules), LAMBDA r : r.enabled)

\* lineItems.map((i) => i.product_id).filter((id) => id != null)
ProductIds(lineItems) ==
  {lineItems[i].product_id : i \in DOMAIN lineItems} \ {NoId}

\* the map the rule loop reads: fetched only for an enabled per_tag rule and
\* a non-empty order
TagMap(enabledRules, lineItems, apiOk) ==
  IF (\E i \in DOMAIN enabledRules : enabledRules[i].type = "per_tag")
     /\ Len(lineItems) > 0
    THEN fetchProductTags(ProductIds(lineItems), apiOk)
    ELSE <<>>

RECURSIVE RuleLoop(_, _, _, _, _)

\* a variant that stops after the first enabled rule; C8 does not hold of it
RuleLoopFirstOnly(rules, totalAmount, lineItems, productIdToTags, costPerTree) ==
  IF rules = <<>> THEN 0
  ELSE treesFromRule(Head(rules), totalAmount, lineItems, productIdToTags, costPerTree)

\* for (const rule of enabledRules) treesToPlant += treesFromRule(...)
RuleLoop(rules, totalAmount, lineItems, productIdToTags, costPerTree) ==
  IF rules = <<>> THEN 0
  ELSE Plus(treesFromRule(Head(rules), totalAmount, lineItems, productIdToTags,
                          costPerTree),
            RuleLoop(Tail(rules), totalAmount, lineItems, productIdToTags,
                     costPerTree))

\* minOrderValue != null && minOrderValue > 0 && totalAmount < minOrderValue
BelowMinimum(st, totalAmount) ==
  /\ ~IsNull(st.minOrderValue)
  /\ Val(st.minOrderValue) > 0
  /\ ~IsNaN(totalAmount)
  /\ totalAmount < Val(st.minOrderValue)

\* the legacy triggerType / triggerValue branch; the result is treesToPlant,
\* a number (for "fixed" the configured value itself)
LegacyTrees(st, totalAmount, lineItems, costPerTree) ==
  CASE st.triggerType = "fixed" -> st.triggerValue
    [] st.triggerType = "threshold" ->
         IF IsNaN(totalAmount) THEN NaN ELSE Num(totalAmount \div st.triggerValue)
    [] st.triggerType = "percentage" ->
         NumOrNaN(PercentageTrees(totalAmount, st.triggerValue, costPerTree))
    [] st.triggerType = "per_product" ->
         Num(SumUnits(lineItems, Max(1, Floor(st.triggerValue))))
    [] OTHER -> 0

\* the whole evaluation: stop is an early empty response, treesToPlant the
\* number the handler goes on with
Evaluation(st, order, apiOk) ==
  LET totalAmount == TotalAmount(order)
      lineItems == order.line_items
      costPerTree == CostPerTree(st)
  IN IF HasRuleList(st)
       THEN LET enabledRules == EnabledRules(st)
            IN IF enabledRules = <<>>
                 THEN [stop |-> TRUE, treesToPlant |-> 0]
                 ELSE [stop |-> FALSE,
                       treesToPlant |->
                         NumOrNaN(RuleLoop(enabledRules, totalAmount, lineItems,
                                           TagMap(enabledRules, lineItems, apiOk),
                                           costPerTree))]
       ELSE IF BelowMinimum(st, totalAmount)
              THEN [stop |-> TRUE, treesToPlant |-> 0]
              ELSE [stop |-> FALSE,
                    treesToPlant |-> LegacyTrees(st, totalAmount, lineItems, costPerTree)]

\* const trees = Math.round(treesToPlant)
Trees(treesToPlant) == Round(treesToPlant)

\* const treeCost = trees * costPerTree
TreeCost(trees, costPerTree) == trees * costPerTree

\* a variant with the Flow endpoints' 24 kg per tree; C7 does not hold of it
Co2OffsetFlow(trees) == Num(trees * FlowCo2PerTree)

\* const co2Offset = trees * CO2_PER_TREE_KG
Co2Offset(trees) == Num(trees * CO2_PER_TREE_KG)

\* a variant that also rejects an order that meets the limit exactly; C2
\* does not hold of it
OverLimitInclusive(st, cost) ==
  Truthy(st.monthlyLimit) /\ st.monthlySpent + cost >= Val(st.monthlyLimit)

\* settings.monthlyLimit && settings.monthlySpent + cost > settings.monthlyLimit
OverLimit(st, cost) ==
  Truthy(st.monthlyLimit) /\ st.monthlySpent + cost > Val(st.monthlyLimit)

\* if (treesToPlant > 0)
Plants(treesToPlant) == ~IsNaN(treesToPlant) /\ treesToPlant > 0

\* what one delivery computes from the row it read: the early stop, the
\* running treesToPlant, and the integer count and cost it would record
Outcome(st, order, apiOk) ==
  LET ev == Evaluation(st, order, apiOk)
      plant == ~ev.stop /\ Plants(ev.treesToPlant)
      trees == IF plant THEN Trees(ev.treesToPlant) ELSE 0
      cost == TreeCost(trees, CostPerTree(st))
  IN [stop |-> ev.stop,
      treesToPlant |-> ev.treesToPlant,
      plant |-> plant,
      trees |-> trees,
      treeCost |-> cost,
      rejected |-> plant /\ OverLimit(st, cost)]

-----------------------------------------------------------------------------
(* Rows, rules and orders *)

Rule(type, enabled, value, tag, minOrderValue) ==
  [type |-> type, enabled |-> enabled, value |-> value, tag |-> tag,
   minOrderValue |-> minOrderValue]

Item(product_id, quantity) == [product_id |-> product_id, quantity |-> quantity]

Order(id, total_price, line_items) ==
  [id |-> id, total_price |-> total_price, line_items |-> line_items]

\* a shopify_settings row with the column defaults
DefaultRow ==
  [isEnabled |-> TRUE, isPaused |-> FALSE,
   triggerType |-> "fixed", triggerValue |-> 100, minOrderValue |-> None,
   triggerRules |-> None,
   costPerTree |-> Some(DefaultCostPerTree), costPerKgCo2 |-> Some(DefaultCostPerKgCo2),
   monthlyLimit |-> None, monthlySpent |-> 0,
   loyaltyEnabled |-> FALSE, pointsPerTree |-> Some(DefaultPointsPerTree),
   loyaltyApiKey |-> None]

\* sequences over S of length 0..n
SeqUpTo(S, n) == UNION {[1..k -> S] : k \in 0..n}

-----------------------------------------------------------------------------
(* Bounds *)

MaxRules == 2
MaxItems == 2

-----------------------------------------------------------------------------
(* The rule evaluator on its own: SpecEval draws a configuration and an    *)
(* order and applies the webhook's computation to them.                    *)

TriggerTypes == {"fixed", "per_product", "per_tag", "threshold", "percentage"}

RuleChoices ==
       {Rule("fixed", e, v, None, None) : e \in BOOLEAN, v \in {100, 250}}
  \cup {Rule("per_product", TRUE, v, None, None) : v \in {40, 200}}
  \cup {Rule("per_tag", TRUE, 100, t, None) : t \in {None, Some(" "), Some("Eco")}}
  \cup {Rule("per_tag", TRUE, v, Some("eco"), None) : v \in {40, 250}}
  \cup {Rule("threshold", TRUE, 2500, None, m) : m \in {None, Some(5000)}}
  \cup {Rule("percentage", e, 500, None, None) : e \in BOOLEAN}

ItemChoices ==
  {Item(NumId(1), Some(2)), Item(GidId(2), None), Item(NoId, Some(1))}

EvalOrders ==
  {Order(1001, t, items) :
     t \in {None, Some(NaN), Some(4000), Some(10000)}, items \in SeqUpTo(ItemChoices, MaxItems)}

LegacyRows ==
  {[DefaultRow EXCEPT !.triggerType = ty, !.triggerValue = v,
                      !.minOrderValue = m, !.triggerRules = tr, !.costPerTree = c] :
     ty \in TriggerTypes, v \in {40, 100, 250, 500, 2500},
     m \in {None, Some(0), Some(5000)}, tr \in {None, Some(<<>>)},
     c \in {None, Some(100)}}

RuleRows ==
  {[DefaultRow EXCEPT !.triggerRules = Some(rs), !.costPerTree = c] :
     rs \in SeqUpTo(RuleChoices, MaxRules) \ {<<>>}, c \in {None, Some(100)}}

NoOutcome ==
  [done |-> FALSE, stop |-> FALSE, treesToPlant |-> 0, plant |-> FALSE,
   trees |-> 0, treeCost |-> 0, rejected |-> FALSE]

\* no request answered yet; trees and cost are the counts a response reports
NoResp == [op |-> "none", status |-> 0, trees |-> 0, cost |-> 0, error |-> ""]

Resp(op, status, trees, cost) ==
  [op |-> op, status |-> status, trees |-> trees, cost |-> cost, error |-> ""]

\* json({ error }, { status })
Err(op, status, error) ==
  [op |-> op, status |-> status, trees |-> 0, cost |-> 0, error |-> error]

InitEval ==
  /\ settings = <<>>
  /\ shopRecords = <<>>
  /\ ledger = <<>>
  /\ flowLog = <<>>
  /\ redemptions = <<>>
  /\ req = <<>>
  /\ lastResp = NoResp
  /\ ops = 0
  /\ evalIn \in [st : LegacyRows \cup RuleRows, order : EvalOrders, apiOk : BOOLEAN]
  /\ evalOut = NoOutcome
  /\ clock = 0
  /\ created = <<>>
  /\ issued = StoredKeys(settings)
  /\ inactive = {}

Evaluate ==
  /\ ~evalOut.done
  /\ evalOut' = [done |-> TRUE] @@ Outcome(evalIn.st, evalIn.order, evalIn.apiOk)
  /\ UNCHANGED <<settings, shopRecords, ledger, flowLog, redemptions, req,
                 lastResp, ops, evalIn>>
  /\ Served

NextEval == Evaluate

SpecEval == InitEval /\ [][NextEval]_vars

-----------------------------------------------------------------------------
(* The order webhook, one step per await and per check of the handler.     *)
(* Spec runs MaxHandlers deliveries concurrently, with the dashboard's     *)
(* pause toggle.                                                           *)

MaxHandlers == 2

Handlers == 1..MaxHandlers

ShopA == "a.myshopify.com"
ShopB == "b.myshopify.com"
Shops == {ShopA, ShopB}

\* a request before its delivery, and the locals of a delivered one
IdleReq ==
  [pc |-> "idle", shop |-> ShopA, topic |-> "", order |-> Order(0, None, <<>>),
   hasRow |-> FALSE, st |-> DefaultRow, treesToPlant |-> 0, trees |-> 0,
   co2Offset |-> 0, treeCost |-> 0, shopId |-> 0, inserted |-> FALSE,
   incremented |-> FALSE, status |-> 0]

\* return new Response(): an empty 200
Respond(r) == [r EXCEPT !.pc = "done", !.status = 200]

\* an uncaught exception: the framework answers 500
Throw(r) == [r EXCEPT !.pc = "failed", !.status = 500]

\* the row INSERT INTO impact_ledger writes for an order
OrderLedgerRow(shopId, trees, co2Offset, order) ==
  [source_type |-> "shopify", source_id |-> shopId, trees_planted |-> trees,
   co2_offset_kg |-> co2Offset, reference_id |-> order.id,
   reference_type |-> "order"]

\* a variant that writes back the value the handler read plus its own cost
\* (a lost update); C4 does not hold of it
IncrementedFromSnapshot(row, r) ==
  [row EXCEPT !.monthlySpent = r.st.monthlySpent + r.treeCost]

\* monthlySpent: { increment: treeCost }, applied by the database to the row
\* as it is at the update
Incremented(row, r) ==
  [row EXCEPT !.monthlySpent = row.monthlySpent + r.treeCost]

\* authenticate.webhook(request): a delivery arrives
Receive(h, shop, topic, order) ==
  /\ req[h].pc = "idle"
  /\ \A g \in Handlers : g < h => req[g].pc # "idle"
  /\ req' = [req EXCEPT ![h] = [IdleReq EXCEPT !.pc = "received", !.shop = shop,
                                              !.topic = topic, !.order = order]]
  /\ UNCHANGED <<settings, shopRecords, ledger, flowLog, redemptions, lastResp,
                 ops, evalIn, evalOut>>
  /\ Served

\* the topic test, then prisma.shopifySettings.findUnique({ where: { shop } })
LoadSettings(h) ==
  /\ req[h].pc = "received"
  /\ req' = [req EXCEPT ![h] =
       IF TopicIgnored(req[h].topic) THEN Respond(req[h])
       ELSE IF req[h].shop \in DOMAIN settings
         THEN [req[h] EXCEPT !.pc = "settings_loaded", !.hasRow = TRUE,
                             !.st = settings[req[h].shop]]
         ELSE [req[h] EXCEPT !.pc = "settings_loaded", !.hasRow = FALSE]]
  /\ UNCHANGED <<settings, shopRecords, ledger, flowLog, redemptions, lastResp,
                 ops, evalIn, evalOut>>
  /\ Served

\* if (!settings || !settings.isEnabled) return new Response()
CheckEnabled(h) ==
  /\ req[h].pc = "settings_loaded"
  /\ req' = [req EXCEPT ![h] =
       IF IsDisabled(req[h].hasRow, req[h].st) THEN Respond(req[h])
       ELSE [req[h] EXCEPT !.pc = "enabled"]]
  /\ UNCHANGED <<settings, shopRecords, ledger, flowLog, redemptions, lastResp,
                 ops, evalIn, evalOut>>
  /\ Served

\* if (settings.isPaused) return new Response()
CheckPaused(h) ==
  /\ req[h].pc = "enabled"
  /\ req' = [req EXCEPT ![h] =
       IF IsPaused(req[h].st) THEN Respond(req[h])
       ELSE [req[h] EXCEPT !.pc = "active"]]
  /\ UNCHANGED <<settings, shopRecords, ledger, flowLog, redemptions, lastResp,
                 ops, evalIn, evalOut>>
  /\ Served

\* the rule list or the legacy trigger; apiOk is whether the tag lookup, if
\* one is made, succeeds
EvaluateRules(h, apiOk) ==
  /\ req[h].pc = "active"
  /\ LET ev == Evaluation(req[h].st, req[h].order, apiOk)
     IN req' = [req EXCEPT ![h] =
          IF ev.stop THEN Respond(req[h])
          ELSE [req[h] EXCEPT !.pc = "rules_evaluated",
                              !.treesToPlant = ev.treesToPlant]]
  /\ UNCHANGED <<settings, shopRecords, ledger, flowLog, redemptions, lastResp,
                 ops, evalIn, evalOut>>
  /\ Served

\* if (treesToPlant > 0) { trees, co2Offset, treeCost; the spend-limit guard }
CheckBudget(h) ==
  /\ req[h].pc = "rules_evaluated"
  /\ LET trees == Trees(req[h].treesToPlant)
         cost == TreeCost(trees, CostPerTree(req[h].st))
     IN req' = [req EXCEPT ![h] =
          IF ~Plants(req[h].treesToPlant) THEN Respond(req[h])
          ELSE IF OverLimit(req[h].st, cost)
            THEN Respond([req[h] EXCEPT !.trees = trees, !.treeCost = cost,
                                        !.co2Offset = Co2Offset(trees)])
            ELSE [req[h] EXCEPT !.pc = "budget_ok", !.trees = trees,
                                !.treeCost = cost,
                                !.co2Offset = Co2Offset(trees)]]
  /\ UNCHANGED <<settings, shopRecords, ledger, flowLog, redemptions, lastResp,
                 ops, evalIn, evalOut>>
  /\ Served

\* prisma.shopifyShop.findUnique({ where: { shopDomain: shop } })
FindShop(h) ==
  /\ req[h].pc = "budget_ok"
  /\ req' = [req EXCEPT ![h] =
       IF req[h].shop \in DOMAIN shopRecords
         THEN [req[h] EXCEPT !.pc = "shop_found", !.shopId = shopRecords[req[h].shop]]
         ELSE [req[h] EXCEPT !.pc = "shop_missing"]]
  /\ UNCHANGED <<settings, shopRecords, ledger, flowLog, redemptions, lastResp,
                 ops, evalIn, evalOut>>
  /\ Served

\* prisma.shopifyShop.create(...): shopDomain is unique, so the create of a
\* handler that lost the race throws
CreateShop(h) ==
  /\ req[h].pc = "shop_missing"
  /\ IF req[h].shop \in DOMAIN shopRecords
       THEN /\ req' = [req EXCEPT ![h] = Throw(req[h])]
            /\ UNCHANGED shopRecords
       ELSE LET id == Cardinality(DOMAIN shopRecords) + 1
            IN /\ shopRecords' = (req[h].shop :> id) @@ shopRecords
               /\ req' = [req EXCEPT ![h] = [req[h] EXCEPT !.pc = "shop_found",
                                                           !.shopId = id]]
  /\ UNCHANGED <<settings, ledger, flowLog, redemptions, lastResp, ops,
                 evalIn, evalOut>>
  /\ Served

\* a variant that catches a failed insert and goes on to the increment, as
\* the Flow and loyalty handlers do; C6 does not hold of it
InsertLedgerCaught(h, dbOk) ==
  /\ req[h].pc = "shop_found"
  /\ IF dbOk
       THEN /\ ledger' = Append(ledger, OrderLedgerRow(req[h].shopId, req[h].trees,
                                                       req[h].co2Offset, req[h].order))
            /\ req' = [req EXCEPT ![h] = [req[h] EXCEPT !.pc = "ledger_written",
                                                        !.inserted = TRUE]]
       ELSE /\ req' = [req EXCEPT ![h] = [req[h] EXCEPT !.pc = "ledger_written"]]
            /\ UNCHANGED ledger
  /\ UNCHANGED <<settings, shopRecords, flowLog, redemptions, lastResp, ops,
                 evalIn, evalOut>>
  /\ Served

\* INSERT INTO impact_ledger ...; dbOk is whether the statement succeeds
InsertLedger(h, dbOk) ==
  /\ req[h].pc = "shop_found"
  /\ IF dbOk
       THEN /\ ledger' = Append(ledger, OrderLedgerRow(req[h].shopId, req[h].trees,
                                                       req[h].co2Offset, req[h].order))
            /\ req' = [req EXCEPT ![h] = [req[h] EXCEPT !.pc = "ledger_written",
                                                        !.inserted = TRUE]]
       ELSE /\ req' = [req EXCEPT ![h] = Throw(req[h])]
            /\ UNCHANGED ledger
  /\ UNCHANGED <<settings, shopRecords, flowLog, redemptions, lastResp, ops,
                 evalIn, evalOut>>
  /\ Served

\* prisma.shopifySettings.update({ monthlySpent: { increment: treeCost } }),
\* then return new Response()
IncrementSpend(h, dbOk) ==
  /\ req[h].pc = "ledger_written"
  /\ IF dbOk /\ req[h].shop \in DOMAIN settings
       THEN /\ settings' = [settings EXCEPT ![req[h].shop] =
                              Incremented(settings[req[h].shop], req[h])]
            /\ req' = [req EXCEPT ![h] = Respond([req[h] EXCEPT !.incremented = TRUE])]
       ELSE /\ req' = [req EXCEPT ![h] = Throw(req[h])]
            /\ UNCHANGED settings
  /\ UNCHANGED <<shopRecords, ledger, flowLog, redemptions, lastResp, ops,
                 evalIn, evalOut>>
  /\ Served

\* dashboard action togglePause
TogglePause(shop) ==
  /\ shop \in DOMAIN settings
  /\ settings' = [settings EXCEPT ![shop].isPaused = ~settings[shop].isPaused]
  /\ UNCHANGED <<shopRecords, ledger, flowLog, redemptions, req, lastResp, ops,
                 evalIn, evalOut>>
  /\ Served

\* the deliveries the model draws from
SpecOrders ==
  {Order(1001, Some(10000), <<Item(NumId(1), Some(2))>>),
   Order(1002, Some(4000), <<>>)}

Topics == {"ORDERS_PAID", "ORDERS_CREATE", "APP_UNINSTALLED"}

\* the trigger configurations shop A may start with
SpecConfigs ==
  {[DefaultRow EXCEPT !.triggerType = "fixed", !.triggerValue = 100],
   [DefaultRow EXCEPT !.triggerType = "threshold", !.triggerValue = 2500,
                      !.minOrderValue = Some(5000)],
   [DefaultRow EXCEPT !.triggerRules =
       Some(<<Rule("fixed", TRUE, 100, None, None),
              Rule("per_tag", TRUE, 100, Some("eco"), None)>>)],
   [DefaultRow EXCEPT !.triggerRules =
       Some(<<Rule("fixed", FALSE, 100, None, None)>>)]}

SpecRows ==
  {[c EXCEPT !.isEnabled = e, !.monthlyLimit = l] :
     c \in SpecConfigs, e \in BOOLEAN,
     l \in {None, Some(0), Some(100), Some(150)}}

Init ==
  /\ settings \in {(ShopA :> row) : row \in SpecRows}
  /\ shopRecords \in {<<>>, (ShopA :> 1)}
  /\ ledger = <<>>
  /\ flowLog = <<>>
  /\ redemptions = <<>>
  /\ req = [h \in Handlers |-> IdleReq]
  /\ lastResp = NoResp
  /\ ops = 0
  /\ evalIn = [st |-> DefaultRow, order |-> Order(0, None, <<>>), apiOk |-> TRUE]
  /\ evalOut = NoOutcome
  /\ clock = 0
  /\ created = <<>>
  /\ issued = StoredKeys(settings)
  /\ inactive = {}

HandlerStep(h) ==
  \/ \E shop \in Shops, topic \in Topics, order \in SpecOrders :
       Receive(h, shop, topic, order)
  \/ LoadSettings(h)
  \/ CheckEnabled(h)
  \/ CheckPaused(h)
  \/ \E apiOk \in BOOLEAN : EvaluateRules(h, apiOk)
  \/ CheckBudget(h)
  \/ FindShop(h)
  \/ CreateShop(h)
  \/ \E dbOk \in BOOLEAN : InsertLedger(h, dbOk)
  \/ \E dbOk \in BOOLEAN : IncrementSpend(h, dbOk)

Next ==
  \/ \E h \in Handlers : HandlerStep(h)
  \/ \E shop \in Shops : TogglePause(shop)

Spec == Init /\ [][Next]_vars

-----------------------------------------------------------------------------
(* Flow actions and loyalty redemption, and SpecSeq: requests served one   *)
(* at a time (no two handlers overlap).                                    *)

MaxOps == 3

\* a product of two numbers held in hundredths
Mul(a, b) == (a * b) \div 100

\* the row the Flow and loyalty handlers insert
SideLedgerRow(source_type, shopId, trees, co2) ==
  [source_type |-> source_type, source_id |-> shopId, trees_planted |-> trees,
   co2_offset_kg |-> co2, reference_id |-> 0, reference_type |-> ""]

\* parseInt(properties.tree_count) || 1
FlowTreeCount(raw) == OrDefault(raw, 1)

\* parseFloat(properties.kg_co2) || 1
FlowKgCo2(raw) == OrDefault(raw, 100)

\* settings.monthlyLimit && settings.monthlySpent + cost > settings.monthlyLimit
FlowOverLimit(st, cost) ==
  Truthy(st.monthlyLimit) /\ st.monthlySpent + cost > Val(st.monthlyLimit)

\* a variant that compares the redemption's cost alone with the limit; C3
\* does not hold of it
LoyaltyOverLimitCostOnly(st, cost) ==
  /\ Truthy(st.monthlyLimit) /\ Val(st.monthlyLimit) > 0
  /\ cost > Val(st.monthlyLimit)

\* if (settings.monthlyLimit && settings.monthlyLimit > 0)
\*   if (settings.monthlySpent + treeCost > settings.monthlyLimit)
LoyaltyOverLimit(st, cost) ==
  /\ Truthy(st.monthlyLimit) /\ Val(st.monthlyLimit) > 0
  /\ st.monthlySpent + cost > Val(st.monthlyLimit)

\* a variant whose insert neither fails nor needs the shop record; C20 does
\* not hold of it
SideInsertUnfailing(shop, row, dbOk) ==
  IF shop \in DOMAIN shopRecords
    THEN Append(ledger, [row EXCEPT !.source_id = shopRecords[shop]])
    ELSE Append(ledger, row)

\* the try block around the ledger insert: the row goes in when the shop
\* record exists and the statement succeeds; an error is logged and dropped
SideInsert(shop, row, dbOk) ==
  IF shop \in DOMAIN shopRecords /\ dbOk
    THEN Append(ledger, [row EXCEPT !.source_id = shopRecords[shop]])
    ELSE ledger

Answer(resp) ==
  /\ lastResp' = resp
  /\ ops' = ops + 1

Reject(resp) ==
  /\ Answer(resp)
  /\ UNCHANGED <<settings, shopRecords, ledger, flowLog, redemptions>>

\* where a request's database statements fail, if anywhere: the log (or
\* redemption) create, the monthlySpent update, or the ledger insert
Faults == {"none", "log", "update", "ledger"}

\* POST /flow/plant-trees; a body that does not parse answers as one without
\* shopify_domain does
FlowPlantTrees(method, domain, hasProps, rawCount, fault) ==
  /\ ops < MaxOps
  /\ LET treeCount == FlowTreeCount(rawCount)
         shop == Val(domain)
         st == settings[shop]
         treeCost == treeCount * OrDefault(st.costPerTree, DefaultCostPerTree)
     IN IF method # "POST" THEN Reject(Err("plant_trees", 405, "Method not allowed"))
        ELSE IF IsNull(domain) \/ ~hasProps THEN Reject(Err("plant_trees", 400, "Missing required fields"))
        ELSE IF treeCount < 1 THEN Reject(Err("plant_trees", 400, "tree_count must be at least 1"))
        ELSE IF shop \notin DOMAIN settings THEN Reject(Err("plant_trees", 404, "Shop not registered"))
        ELSE IF st.isPaused THEN Reject(Err("plant_trees", 429, "Impact is currently paused for this shop"))
        ELSE IF FlowOverLimit(st, treeCost) THEN Reject(Err("plant_trees", 429, "Monthly spending limit reached"))
        ELSE IF fault = "log" THEN Reject(Err("plant_trees", 500, "Internal server error"))
        ELSE IF fault = "update"
          THEN /\ flowLog' = Append(flowLog,
                    [shop |-> shop, actionType |-> "plant_trees",
                     treesPlanted |-> treeCount,
                     co2OffsetKg |-> Num(treeCount * FlowCo2PerTree)])
               /\ Answer(Err("plant_trees", 500, "Internal server error"))
               /\ UNCHANGED <<settings, shopRecords, ledger, redemptions>>
        ELSE /\ flowLog' = Append(flowLog,
                  [shop |-> shop, actionType |-> "plant_trees",
                   treesPlanted |-> treeCount,
                   co2OffsetKg |-> Num(treeCount * FlowCo2PerTree)])
             /\ settings' = [settings EXCEPT ![shop].monthlySpent = @ + treeCost]
             /\ ledger' = SideInsert(shop,
                  SideLedgerRow("shopify_flow", 0, treeCount,
                                Num(treeCount * FlowCo2PerTree)), fault # "ledger")
             /\ Answer(Resp("plant_trees", 200, treeCount, treeCost))
             /\ UNCHANGED <<shopRecords, redemptions>>
  /\ UNCHANGED <<req, evalIn, evalOut>>
  /\ Served

\* POST /flow/offset-carbon
FlowOffsetCarbon(method, domain, hasProps, rawKg, fault) ==
  /\ ops < MaxOps
  /\ LET kgCo2 == FlowKgCo2(rawKg)
         shop == Val(domain)
         st == settings[shop]
         carbonCost == Mul(kgCo2, OrDefault(st.costPerKgCo2, DefaultCostPerKgCo2))
     IN IF method # "POST" THEN Reject(Err("offset_carbon", 405, "Method not allowed"))
        ELSE IF IsNull(domain) \/ ~hasProps THEN Reject(Err("offset_carbon", 400, "Missing required fields"))
        ELSE IF kgCo2 < 10 THEN Reject(Err("offset_carbon", 400, "kg_co2 must be at least 0.1"))
        ELSE IF shop \notin DOMAIN settings THEN Reject(Err("offset_carbon", 404, "Shop not registered"))
        ELSE IF st.isPaused THEN Reject(Err("offset_carbon", 429, "Impact is currently paused for this shop"))
        ELSE IF FlowOverLimit(st, carbonCost) THEN Reject(Err("offset_carbon", 429, "Monthly spending limit reached"))
        ELSE IF fault = "log" THEN Reject(Err("offset_carbon", 500, "Internal server error"))
        ELSE IF fault = "update"
          THEN /\ flowLog' = Append(flowLog,
                    [shop |-> shop, actionType |-> "offset_carbon",
                     treesPlanted |-> 0, co2OffsetKg |-> kgCo2])
               /\ Answer(Err("offset_carbon", 500, "Internal server error"))
               /\ UNCHANGED <<settings, shopRecords, ledger, redemptions>>
        ELSE /\ flowLog' = Append(flowLog,
                  [shop |-> shop, actionType |-> "offset_carbon",
                   treesPlanted |-> 0, co2OffsetKg |-> kgCo2])
             /\ settings' = [settings EXCEPT ![shop].monthlySpent = @ + carbonCost]
             /\ ledger' = SideInsert(shop,
                  SideLedgerRow("shopify_flow", 0, 0, kgCo2), fault # "ledger")
             /\ Answer(Resp("offset_carbon", 200, 0, carbonCost))
             /\ UNCHANGED <<shopRecords, redemptions>>
  /\ UNCHANGED <<req, evalIn, evalOut>>
  /\ Served

\* a variant that accepts any key; C18 does not hold of it
KeyMismatchIgnored(st, apiKey) == FALSE

\* settings.loyaltyApiKey !== apiKey
KeyMismatch(st, apiKey) == st.loyaltyApiKey # apiKey

\* a variant that rounds the quotient up; C17 does not hold of it
RedeemTreesRoundedUp(pointsSpent, pointsPerTree) ==
  (pointsSpent + pointsPerTree - 1) \div pointsPerTree

\* Math.floor(pointsSpent / pointsPerTree)
RedeemTrees(pointsSpent, pointsPerTree) == pointsSpent \div pointsPerTree

\* POST /api/loyalty/redeem; body is the parsed JSON body, or null for a
\* body that does not parse
LoyaltyRedeem(method, domain, apiKey, body, fault) ==
  /\ ops < MaxOps
  /\ LET shop == Val(domain)
         st == settings[shop]
         b == Val(body)
         pointsPerTree == OrDefault(st.pointsPerTree, DefaultPointsPerTree)
         treesPlanted == RedeemTrees(b.pointsSpent, pointsPerTree)
         treeCost == treesPlanted * OrDefault(st.costPerTree, DefaultCostPerTree)
     IN IF method # "POST" THEN Reject(Err("redeem", 405, "Method not allowed"))
        ELSE IF IsNull(domain) \/ IsNull(apiKey) THEN Reject(Err("redeem", 400, "Missing required headers"))
        ELSE IF shop \notin DOMAIN settings THEN Reject(Err("redeem", 404, "Shop not found"))
        ELSE IF ~st.loyaltyEnabled THEN Reject(Err("redeem", 403, "Loyalty integration not enabled for this shop"))
        ELSE IF KeyMismatch(st, apiKey) THEN Reject(Err("redeem", 401, "Invalid API key"))
        ELSE IF IsNull(body) THEN Reject(Err("redeem", 400, "Invalid JSON body"))
        ELSE IF ~b.hasCustomer \/ b.pointsSpent = 0 \/ ~b.hasApp
          THEN Reject(Err("redeem", 400, "Missing required fields"))
        ELSE IF b.pointsSpent < 1 THEN Reject(Err("redeem", 400, "pointsSpent must be a positive number"))
        ELSE IF treesPlanted < 1 THEN Reject(Err("redeem", 400, "Minimum points required to plant 1 tree"))
        ELSE IF LoyaltyOverLimit(st, treeCost) THEN Reject(Err("redeem", 429, "Monthly spending limit reached"))
        ELSE IF fault = "log" THEN Reject(Err("redeem", 500, ""))
        ELSE IF fault = "update"
          THEN /\ redemptions' = Append(redemptions,
                    [shop |-> shop, pointsSpent |-> b.pointsSpent,
                     treesPlanted |-> treesPlanted])
               /\ Answer(Resp("redeem", 500, 0, 0))
               /\ UNCHANGED <<settings, shopRecords, ledger, flowLog>>
        ELSE /\ redemptions' = Append(redemptions,
                  [shop |-> shop, pointsSpent |-> b.pointsSpent,
                   treesPlanted |-> treesPlanted])
             /\ settings' = [settings EXCEPT ![shop].monthlySpent = @ + treeCost]
             /\ ledger' = SideInsert(shop,
                  SideLedgerRow("shopify_loyalty", 0, treesPlanted,
                                Num(treesPlanted * FlowCo2PerTree)), fault # "ledger")
             /\ Answer(Resp("redeem", 200, treesPlanted, 0))
             /\ UNCHANGED <<shopRecords, flowLog>>
  /\ UNCHANGED <<req, evalIn, evalOut>>
  /\ Served

\* the order webhook served start to finish with nothing in between:
\* insertOk and updateOk are whether the INSERT and the increment succeed
OrderWebhook(shop, topic, order, apiOk, insertOk, updateOk) ==
  /\ ops < MaxOps
  /\ LET hasRow == shop \in DOMAIN settings
         st == IF hasRow THEN settings[shop] ELSE DefaultRow
         out == Outcome(st, order, apiOk)
         found == shop \in DOMAIN shopRecords
         shopId == IF found THEN shopRecords[shop]
                   ELSE Cardinality(DOMAIN shopRecords) + 1
     IN IF \/ TopicIgnored(topic)
           \/ IsDisabled(hasRow, st)
           \/ IsPaused(st)
           \/ ~out.plant
           \/ out.rejected
          THEN Reject(Resp("order", 200, 0, 0))
          ELSE /\ shopRecords' = IF found THEN shopRecords
                                 ELSE (shop :> shopId) @@ shopRecords
               /\ ledger' = IF insertOk
                              THEN Append(ledger,
                                     OrderLedgerRow(shopId, out.trees,
                                                    Co2Offset(out.trees), order))
                              ELSE ledger
               /\ settings' = IF insertOk /\ updateOk
                                THEN [settings EXCEPT ![shop] =
                                        Incremented(settings[shop],
                                                    [st |-> st, treeCost |-> out.treeCost])]
                                ELSE settings
               /\ Answer(Resp("order", IF insertOk /\ updateOk THEN 200 ELSE 500, 0, 0))
               /\ UNCHANGED <<flowLog, redemptions>>
  /\ UNCHANGED <<req, evalIn, evalOut>>
  /\ Served

\* the requests SpecSeq draws from: <<method, shop domain, ...>>
PlantRequests ==
       {<<"POST", Some(ShopA), TRUE, raw>> : raw \in {None, Some(-2), Some(0), Some(2)}}
  \cup {<<"PUT", Some(ShopA), TRUE, Some(1)>>, <<"POST", None, TRUE, Some(1)>>,
        <<"POST", Some(ShopA), FALSE, None>>, <<"POST", Some(ShopB), TRUE, Some(1)>>}

OffsetRequests ==
       {<<"POST", Some(ShopA), TRUE, raw>> : raw \in {None, Some(5), Some(500)}}
  \cup {<<"PUT", Some(ShopA), TRUE, Some(100)>>, <<"POST", None, TRUE, Some(100)>>,
        <<"POST", Some(ShopA), FALSE, None>>, <<"POST", Some(ShopB), TRUE, Some(100)>>}

RedeemBody(hasCustomer, pointsSpent) ==
  Some([hasCustomer |-> hasCustomer, pointsSpent |-> pointsSpent, hasApp |-> TRUE])

RedeemRequests ==
       {<<"POST", Some(ShopA), Some("aff_1"), RedeemBody(TRUE, pts)>> :
          pts \in {-5, 0, 150, 200, 450}}
  \cup {<<"PUT", Some(ShopA), Some("aff_1"), RedeemBody(TRUE, 200)>>,
        <<"POST", Some(ShopA), None, RedeemBody(TRUE, 200)>>,
        <<"POST", Some(ShopB), Some("aff_1"), RedeemBody(TRUE, 200)>>,
        <<"POST", Some(ShopA), Some("aff_2"), RedeemBody(TRUE, 200)>>,
        <<"POST", Some(ShopA), Some("aff_1"), None>>,
        <<"POST", Some(ShopA), Some("aff_1"), RedeemBody(FALSE, 200)>>}

\* the rows shop A may start with in SpecSeq
SeqRows ==
       {[c EXCEPT !.monthlyLimit = l, !.loyaltyEnabled = TRUE,
                  !.loyaltyApiKey = Some("aff_1")] :
          c \in {cfg \in SpecConfigs : cfg.triggerType = "fixed"},
          l \in {None, Some(0), Some(150)}}
  \cup {DefaultRow}

InitSeq ==
  /\ settings \in {(ShopA :> row) : row \in SeqRows}
  /\ shopRecords \in {<<>>, (ShopA :> 1)}
  /\ ledger = <<>>
  /\ flowLog = <<>>
  /\ redemptions = <<>>
  /\ req = [h \in Handlers |-> IdleReq]
  /\ lastResp = NoResp
  /\ ops = 0
  /\ evalIn = [st |-> DefaultRow, order |-> Order(0, None, <<>>), apiOk |-> TRUE]
  /\ evalOut = NoOutcome
  /\ clock = 0
  /\ created = <<>>
  /\ issued = StoredKeys(settings)
  /\ inactive = {}

NextSeq ==
  \/ \E shop \in Shops, topic \in Topics, order \in SpecOrders,
        apiOk \in BOOLEAN, insertOk \in BOOLEAN, updateOk \in BOOLEAN :
       OrderWebhook(shop, topic, order, apiOk, insertOk, updateOk)
  \/ \E r \in PlantRequests, fault \in Faults :
       FlowPlantTrees(r[1], r[2], r[3], r[4], fault)
  \/ \E r \in OffsetRequests, fault \in Faults :
       FlowOffsetCarbon(r[1], r[2], r[3], r[4], fault)
  \/ \E r \in RedeemRequests, fault \in Faults :
       LoyaltyRedeem(r[1], r[2], r[3], r[4], fault)
  \/ \E shop \in Shops : TogglePause(shop)

SpecSeq == InitSeq /\ [][NextSeq]_vars

-----------------------------------------------------------------------------
(* The merchant dashboard, the loyalty read endpoints, the uninstall       *)
(* webhook and the calendar; SpecDash serves them one request at a time    *)
(* together with the order webhook, the Flow actions and the redemption.   *)

Min(a, b) == IF a <= b THEN a ELSE b

\* DEFAULT_RULES
DEFAULT_RULES ==
  <<Rule("fixed", TRUE, 100, None, None),
    Rule("per_product", FALSE, 100, None, None),
    Rule("per_tag", FALSE, 100, Some(""), None),
    Rule("threshold", FALSE, 5000, None, Some(5000)),
    Rule("percentage", FALSE, 500, None, None)>>

\* the rule list the loader builds from the legacy fields
SynthesizedRules(st) ==
  [i \in DOMAIN DEFAULT_RULES |->
     LET r == DEFAULT_RULES[i]
     IN [r EXCEPT
           !.enabled = (r.type = st.triggerType),
           !.value = IF r.type = st.triggerType THEN st.triggerValue ELSE r.value,
           !.minOrderValue = IF r.type = "threshold"
                               THEN Some(OrElse(st.minOrderValue, 5000))
                               ELSE r.minOrderValue]]

\* the rule list the loader hands to the page
LoadedRules(st) ==
  IF HasRuleList(st) THEN Val(st.triggerRules) ELSE SynthesizedRules(st)

\* a variant without the cap at 100; C22 does not hold of it
MonthlyProgressUncapped(st) ==
  IF Truthy(st.monthlyLimit)
    THEN (st.monthlySpent * 10000) \div Val(st.monthlyLimit)
    ELSE 0

\* monthlyProgress, a percentage held in hundredths
MonthlyProgress(st) ==
  IF Truthy(st.monthlyLimit)
    THEN Min((st.monthlySpent * 10000) \div Val(st.monthlyLimit), Num(100))
    ELSE 0

\* what a submitted updateSettings form carries: the rule list (None when
\* the field is absent or does not parse), the monthly limit (None when the
\* field is absent or empty) and the legacy trigger fields
Form(triggerRules, monthlyLimit, triggerType, triggerValue, minOrderValue) ==
  [triggerRules |-> triggerRules, monthlyLimit |-> monthlyLimit,
   triggerType |-> triggerType, triggerValue |-> triggerValue,
   minOrderValue |-> minOrderValue]

\* triggerRules.find((r) => r.enabled)
FirstEnabled(rules) ==
  LET on == SelectSeq(rules, LAMBDA r : r.enabled)
  IN IF on = <<>> THEN None ELSE Some(Head(on))

\* the row updateSettings leaves behind: the upsert's update of row st
UpdatedRow(st, form) ==
  LET limited == [st EXCEPT !.monthlyLimit = form.monthlyLimit]
  IN IF ~IsNull(form.triggerRules) /\ Len(Val(form.triggerRules)) > 0
       THEN LET first == FirstEnabled(Val(form.triggerRules))
                ruled == [limited EXCEPT !.triggerRules = form.triggerRules]
            IN IF IsNull(first) THEN ruled
               ELSE [ruled EXCEPT !.triggerType = Val(first).type,
                                  !.triggerValue = Val(first).value,
                                  !.minOrderValue = Val(first).minOrderValue]
       ELSE [limited EXCEPT !.triggerType = form.triggerType,
                            !.triggerValue = OrDefault(form.triggerValue, 100),
                            !.minOrderValue = form.minOrderValue]

\* the upsert's create, when the shop has no row yet
CreatedRow(form) ==
  LET u == UpdatedRow(DefaultRow, form)
  IN [DefaultRow EXCEPT !.triggerType = u.triggerType,
                        !.triggerValue = u.triggerValue,
                        !.monthlyLimit = u.monthlyLimit,
                        !.triggerRules = u.triggerRules]

\* monthlyRemaining ? Math.floor(monthlyRemaining / (costPerTree || 0.5)) : null
TreesRemaining(st, monthlyRemaining) ==
  IF Truthy(monthlyRemaining)
    THEN Some(Val(monthlyRemaining) \div OrDefault(st.costPerTree, DefaultCostPerTree))
    ELSE None

\* monthlyLimit ? Math.max(0, monthlyLimit - monthlySpent) : null
MonthlyRemaining(st) ==
  IF Truthy(st.monthlyLimit)
    THEN Some(Max(0, Val(st.monthlyLimit) - st.monthlySpent))
    ELSE None

MaxMonths == 1

\* the keys crypto.randomBytes can yield, as far as the model draws them
Keys == {"aff_1", "aff_2", "aff_3"}

\* a response that carries fields of its own besides the common ones
With(resp, fields) == fields @@ resp

\* the dashboard loader: it creates the settings row and the shop record
\* when they are missing, and hands the page the rule list and the numbers
\* monthlyProgress is computed from
DashboardLoad(shop) ==
  /\ ops < MaxOps
  /\ LET st == IF shop \in DOMAIN settings THEN settings[shop] ELSE DefaultRow
     IN /\ settings' = IF shop \in DOMAIN settings THEN settings
                       ELSE (shop :> DefaultRow) @@ settings
        /\ shopRecords' = IF shop \in DOMAIN shopRecords THEN shopRecords
                          ELSE (shop :> Cardinality(DOMAIN shopRecords) + 1)
                                 @@ shopRecords
        /\ Answer(With(Resp("dashboard", 200, 0, 0),
                       [shop |-> shop, triggerRules |-> LoadedRules(st),
                        monthlyProgress |-> MonthlyProgress(st)]))
  /\ UNCHANGED <<ledger, flowLog, redemptions, req, evalIn, evalOut>>
  /\ Served

\* action "updateSettings"
UpdateSettings(shop, form) ==
  /\ ops < MaxOps
  /\ settings' = IF shop \in DOMAIN settings
                   THEN [settings EXCEPT ![shop] = UpdatedRow(settings[shop], form)]
                   ELSE (shop :> CreatedRow(form)) @@ settings
  /\ Answer(Resp("updateSettings", 200, 0, 0))
  /\ UNCHANGED <<shopRecords, ledger, flowLog, redemptions, req, evalIn, evalOut>>
  /\ Served

RECURSIVE SumTrees(_, _)

\* SUM(trees_planted) over the ledger rows numbered in I
SumTrees(rows, I) ==
  IF I = {} THEN 0
  ELSE LET i == CHOOSE j \in I : TRUE
       IN rows[i].trees_planted + SumTrees(rows, I \ {i})

\* the rows the sync query selects: the shop's rows of the three source
\* types created since the start of the current month
SyncRows(shopId) ==
  {i \in DOMAIN ledger :
     /\ ledger[i].source_type \in {"shopify", "shopify_flow", "shopify_loyalty"}
     /\ ledger[i].source_id = shopId
     /\ created[i] >= clock}

\* treesThisMonth * costPerTree
CalculatedSpent(shop) ==
  SumTrees(ledger, SyncRows(shopRecords[shop]))
    * OrDefault(settings[shop].costPerTree, DefaultCostPerTree)

\* action "syncMonthlySpent"; an update of a row that does not exist throws
SyncMonthlySpent(shop) ==
  /\ ops < MaxOps
  /\ IF shop \notin DOMAIN shopRecords
       THEN Reject(Err("syncMonthlySpent", 200, "Shop not found"))
       ELSE IF shop \notin DOMAIN settings
         THEN Reject(Err("syncMonthlySpent", 500, ""))
         ELSE /\ settings' = [settings EXCEPT
                                ![shop].monthlySpent = CalculatedSpent(shop)]
              /\ Answer(Resp("syncMonthlySpent", 200,
                             SumTrees(ledger, SyncRows(shopRecords[shop])),
                             CalculatedSpent(shop)))
              /\ UNCHANGED <<shopRecords, ledger, flowLog, redemptions>>
  /\ UNCHANGED <<req, evalIn, evalOut>>
  /\ Served

\* a variant that resets every shop's row; C27 does not hold of it
ResetAllShops(shop) ==
  [d \in DOMAIN settings |-> [settings[d] EXCEPT !.monthlySpent = 0]]

\* update({ where: { shop }, data: { monthlySpent: 0 } })
ResetOneShop(shop) == [settings EXCEPT ![shop].monthlySpent = 0]

\* action "resetMonthlySpent"
ResetMonthlySpent(shop) ==
  /\ ops < MaxOps
  /\ IF shop \notin DOMAIN settings
       THEN Reject(Err("resetMonthlySpent", 500, ""))
       ELSE /\ settings' = ResetOneShop(shop)
            /\ Answer(Resp("resetMonthlySpent", 200, 0, 0))
            /\ UNCHANGED <<shopRecords, ledger, flowLog, redemptions>>
  /\ UNCHANGED <<req, evalIn, evalOut>>
  /\ Served

\* action "updateLoyaltySettings": pointsPerTree = parseInt(...) || 200
UpdateLoyaltySettings(shop, loyaltyEnabled, pointsPerTree) ==
  /\ ops < MaxOps
  /\ IF shop \notin DOMAIN settings
       THEN Reject(Err("updateLoyaltySettings", 500, ""))
       ELSE /\ settings' = [settings EXCEPT
                              ![shop].loyaltyEnabled = loyaltyEnabled,
                              ![shop].pointsPerTree =
                                 Some(OrDefault(pointsPerTree, DefaultPointsPerTree))]
            /\ Answer(Resp("updateLoyaltySettings", 200, 0, 0))
            /\ UNCHANGED <<shopRecords, ledger, flowLog, redemptions>>
  /\ UNCHANGED <<req, evalIn, evalOut>>
  /\ Served

\* a variant that keeps the stored key when it issues a new one; C28 does
\* not hold of it
NewKeyKept(st, key) == st

\* data: { loyaltyApiKey: apiKey }
NewKey(st, key) == [st EXCEPT !.loyaltyApiKey = key]

\* the keys handed out, once the key of shop has been overwritten: the keys
\* it held are no longer live
Retire(shop) ==
  {IF p[1] = shop THEN <<p[1], p[2], FALSE>> ELSE p : p \in issued}

\* action "generateApiKey": 24 random bytes, taken to differ from every key
\* drawn before
GenerateApiKey(shop, apiKey) ==
  /\ ops < MaxOps
  /\ apiKey \in Keys \ {p[2] : p \in issued}
  /\ issued' = IF shop \in DOMAIN settings
                 THEN Retire(shop) \cup {<<shop, apiKey, TRUE>>} ELSE issued
  /\ IF shop \notin DOMAIN settings
       THEN Reject(Err("generateApiKey", 500, ""))
       ELSE /\ settings' = [settings EXCEPT
                              ![shop] = NewKey(settings[shop], Some(apiKey))]
            /\ Answer(Resp("generateApiKey", 200, 0, 0))
            /\ UNCHANGED <<shopRecords, ledger, flowLog, redemptions>>
  /\ UNCHANGED <<req, evalIn, evalOut>>
  /\ Stamped /\ UNCHANGED <<clock, inactive>>

\* action "revokeApiKey"
RevokeApiKey(shop) ==
  /\ ops < MaxOps
  /\ IF shop \notin DOMAIN settings
       THEN Reject(Err("revokeApiKey", 500, ""))
       ELSE /\ settings' = [settings EXCEPT ![shop] = NewKey(settings[shop], None)]
            /\ Answer(Resp("revokeApiKey", 200, 0, 0))
            /\ UNCHANGED <<shopRecords, ledger, flowLog, redemptions>>
  /\ issued' = IF shop \in DOMAIN settings THEN Retire(shop) ELSE issued
  /\ UNCHANGED <<req, evalIn, evalOut>>
  /\ Stamped /\ UNCHANGED <<clock, inactive>>

\* a variant that deletes the shop's ledger rows with the sessions; C24 does
\* not hold of it
AppUninstalledPurging(shop) ==
  /\ ops < MaxOps
  /\ inactive' = inactive \cup ({shop} \cap DOMAIN shopRecords)
  /\ ledger' = IF shop \in DOMAIN shopRecords
                 THEN SelectSeq(ledger, LAMBDA row : row.source_id # shopRecords[shop])
                 ELSE ledger
  /\ Answer(Resp("uninstalled", 200, 0, 0))
  /\ UNCHANGED <<settings, shopRecords, flowLog, redemptions, req, evalIn, evalOut>>
  /\ Stamped /\ UNCHANGED <<clock, issued>>

\* the app/uninstalled webhook: the shop record, if there is one, is marked
\* inactive and kept
AppUninstalled(shop) ==
  /\ ops < MaxOps
  /\ inactive' = inactive \cup ({shop} \cap DOMAIN shopRecords)
  /\ Reject(Resp("uninstalled", 200, 0, 0))
  /\ UNCHANGED <<req, evalIn, evalOut>>
  /\ Stamped /\ UNCHANGED <<clock, issued>>

\* GET /api/loyalty/rates
LoyaltyRates(domain, apiKey) ==
  /\ ops < MaxOps
  /\ LET shop == Val(domain)
         st == settings[shop]
     IN IF IsNull(domain)
          THEN Reject(Err("rates", 400, "Missing required header: X-Shop-Domain"))
        ELSE IF shop \notin DOMAIN settings
          THEN Reject(Err("rates", 404, "Shop not found"))
        ELSE IF ~IsNull(apiKey) /\ st.loyaltyApiKey = apiKey
          THEN Reject(With(Resp("rates", 200, 0, 0),
                           [extended |-> TRUE,
                            monthlyLimit |-> st.monthlyLimit,
                            monthlySpent |-> st.monthlySpent,
                            monthlyRemaining |-> MonthlyRemaining(st),
                            treesRemainingThisMonth |->
                              TreesRemaining(st, MonthlyRemaining(st))]))
        ELSE Reject(With(Resp("rates", 200, 0, 0), [extended |-> FALSE]))
  /\ UNCHANGED <<req, evalIn, evalOut>>
  /\ Served

RECURSIVE SumRedeemed(_, _)

\* redemptions.reduce((sum, r) => sum + r.treesPlanted, 0) over a shop's rows
SumRedeemed(rows, shop) ==
  IF rows = <<>> THEN 0
  ELSE (IF Head(rows).shop = shop THEN Head(rows).treesPlanted ELSE 0)
         + SumRedeemed(Tail(rows), shop)

\* GET /api/loyalty/impact/:customerId
LoyaltyImpact(domain, apiKey) ==
  /\ ops < MaxOps
  /\ LET shop == Val(domain)
         st == settings[shop]
     IN IF IsNull(domain) \/ IsNull(apiKey)
          THEN Reject(Err("impact", 400,
                          "Missing required headers: X-Shop-Domain, X-Api-Key"))
        ELSE IF shop \notin DOMAIN settings
          THEN Reject(Err("impact", 404, "Shop not found"))
        ELSE IF ~st.loyaltyEnabled
          THEN Reject(Err("impact", 403,
                          "Loyalty integration not enabled for this shop"))
        ELSE IF KeyMismatch(st, apiKey)
          THEN Reject(Err("impact", 401, "Invalid API key"))
        ELSE Reject(Resp("impact", 200, SumRedeemed(redemptions, shop), 0))
  /\ UNCHANGED <<req, evalIn, evalOut>>
  /\ Served

\* the calendar moves on to the next month; no code runs for it
NewMonth ==
  /\ clock < MaxMonths
  /\ clock' = clock + 1
  /\ UNCHANGED <<settings, shopRecords, ledger, flowLog, redemptions, req,
                 lastResp, ops, evalIn, evalOut, created, issued, inactive>>

\* the requests SpecDash draws from
DashPlantRequests ==
  {<<"POST", Some(shop), TRUE, Some(n)>> : shop \in Shops, n \in {1, 2}}

DashOffsetRequests ==
  {<<"POST", Some(shop), TRUE, Some(500)>> : shop \in Shops}

DashRedeemRequests ==
  {<<"POST", Some(shop), key, RedeemBody(TRUE, 200)>> :
     shop \in Shops, key \in {Some("aff_1"), Some("aff_2"), Some("aff_3")}}

DashReadRequests ==
  {<<Some(ShopA), key>> : key \in {None, Some("aff_1"), Some("aff_3")}}

DashOrder == Order(1001, Some(10000), <<Item(NumId(1), Some(2))>>)

DashForms ==
  {Form(Some(<<Rule("fixed", FALSE, 100, None, None)>>), None, "fixed", Some(100), None),
   Form(None, Some(50), "threshold", Some(2500), Some(5000))}

\* the rows shop A may start with in SpecDash, and shop B's row
DashRows ==
  {[DefaultRow EXCEPT !.monthlyLimit = l, !.loyaltyEnabled = TRUE,
                      !.loyaltyApiKey = Some("aff_1")] :
     l \in {None, Some(50), Some(150)}}

DashRowB ==
  [DefaultRow EXCEPT !.loyaltyEnabled = TRUE, !.loyaltyApiKey = Some("aff_2")]

InitDash ==
  /\ settings \in {(ShopA :> row) @@ (ShopB :> DashRowB) : row \in DashRows}
                    \cup {(ShopA :> [DashRowB EXCEPT !.loyaltyApiKey = Some("aff_1")])}
  /\ shopRecords \in {<<>>, (ShopA :> 1) @@ (ShopB :> 2)}
  /\ ledger = <<>>
  /\ flowLog = <<>>
  /\ redemptions = <<>>
  /\ req = [h \in Handlers |-> IdleReq]
  /\ lastResp = NoResp
  /\ ops = 0
  /\ evalIn = [st |-> DefaultRow, order |-> Order(0, None, <<>>), apiOk |-> TRUE]
  /\ evalOut = NoOutcome
  /\ clock = 0
  /\ created = <<>>
  /\ issued = StoredKeys(settings)
  /\ inactive = {}

NextDash ==
  \/ \E shop \in Shops, insertOk \in BOOLEAN, updateOk \in BOOLEAN :
       OrderWebhook(shop, "ORDERS_PAID", DashOrder, TRUE, insertOk, updateOk)
  \/ \E r \in DashPlantRequests, fault \in {"none", "ledger"} :
       FlowPlantTrees(r[1], r[2], r[3], r[4], fault)
  \/ \E r \in DashOffsetRequests, fault \in {"none", "ledger"} :
       FlowOffsetCarbon(r[1], r[2], r[3], r[4], fault)
  \/ \E r \in DashRedeemRequests, fault \in {"none", "ledger"} :
       LoyaltyRedeem(r[1], r[2], r[3], r[4], fault)
  \/ TogglePause(ShopA)
  \/ \E shop \in Shops : DashboardLoad(shop)
  \/ \E shop \in Shops, form \in DashForms : UpdateSettings(shop, form)
  \/ \E shop \in Shops : SyncMonthlySpent(shop)
  \/ \E shop \in Shops : ResetMonthlySpent(shop)
  \/ \E shop \in Shops, on \in BOOLEAN : UpdateLoyaltySettings(shop, on, None)
  \/ \E shop \in Shops, key \in Keys : GenerateApiKey(shop, key)
  \/ \E shop \in Shops : RevokeApiKey(shop)
  \/ \E shop \in Shops : AppUninstalled(shop)
  \/ \E r \in DashReadRequests : LoyaltyRates(r[1], r[2])
  \/ \E r \in DashReadRequests : LoyaltyImpact(r[1], r[2])
  \/ NewMonth

SpecDash == InitDash /\ [][NextDash]_vars

-----------------------------------------------------------------------------
(* Claims about the order webhook (Spec) *)

\* handler h is serving an order event and has read the settings
Loaded(h) ==
  req[h].pc \notin {"idle", "received"} /\ req[h].topic \in OrderTopics

\* the settings handler h read: no row, isEnabled = false or isPaused = true
Off(h) == ~req[h].hasRow \/ ~req[h].st.isEnabled \/ req[h].st.isPaused

\* the ledger rows of order id
OrderRows(id) ==
  {i \in DOMAIN ledger :
     ledger[i].reference_type = "order" /\ ledger[i].reference_id = id}

C1_State ==
  \A h \in Handlers :
    (Loaded(h) /\ Off(h)) =>
       /\ req[h].pc \in {"settings_loaded", "enabled", "done"}
       /\ ~req[h].inserted
       /\ ~req[h].incremented
       /\ req[h].trees = 0
       /\ (req[h].pc = "done" => req[h].status = 200)

C1_Step ==
  \A h \in Handlers :
    (Loaded(h) /\ Off(h) /\ req'[h] # req[h]) =>
       /\ ledger' = ledger
       /\ settings' = settings
       /\ shopRecords' = shopRecords
       /\ req'[h].pc \in {"enabled", "done"}

\* C1: an order event handled while its shop has no settings row, is
\* disabled or is paused writes no ledger row, leaves monthlySpent (and
\* every other row) unchanged and ends in an empty 200, whatever the order
\* and the trigger configuration are.
C1_NoImpactWhenOff == []C1_State /\ [][C1_Step]_vars

\* C1 witness: one delivery answered 200 for a paused shop whose trigger
\* would have planted, another for a shop without a settings row
C1_Witness ==
  \E h1, h2 \in Handlers :
    /\ Loaded(h1) /\ req[h1].pc = "done" /\ req[h1].status = 200
    /\ req[h1].hasRow /\ req[h1].st.isEnabled /\ req[h1].st.isPaused
    /\ Outcome([req[h1].st EXCEPT !.isPaused = FALSE], req[h1].order, TRUE).trees > 0
    /\ Loaded(h2) /\ req[h2].pc = "done" /\ req[h2].status = 200
    /\ ~req[h2].hasRow
    /\ ledger = <<>>

\* handler h has applied the spend-limit guard
Guarded(h) ==
  /\ Loaded(h)
  /\ req[h].pc \notin {"settings_loaded", "enabled", "active", "rules_evaluated"}
  /\ req[h].treesToPlant > 0

\* the full tree count of h's order and its cost
FullCount(h) == (req[h].treesToPlant + 50) \div 100
FullCost(h) == FullCount(h) * OrElse(req[h].st.costPerTree, DefaultCostPerTree)

\* monthlyLimit is set (0 counts as no limit, as on the dashboard) and
\* monthlySpent + trees * costPerTree > monthlyLimit, on the row h read
WouldExceed(h) ==
  /\ req[h].st.monthlyLimit # None
  /\ Val(req[h].st.monthlyLimit) # 0
  /\ req[h].st.monthlySpent + FullCost(h) > Val(req[h].st.monthlyLimit)

RacedPast(h1, h2) ==
  /\ h1 # h2
  /\ req[h1].shop = req[h2].shop
  /\ req[h1].incremented /\ req[h2].incremented
  /\ req[h1].st.monthlySpent = req[h2].st.monthlySpent
  /\ req[h1].st.monthlyLimit # None /\ Val(req[h1].st.monthlyLimit) > 0

\* C4: the guard's read and the increment are not atomic. Two concurrent
\* deliveries that passed the budget check against the same monthlySpent
\* both write a row and both increments land on top of each other; nothing
\* re-checks the limit, so monthlySpent can end above monthlyLimit.
C4_RacePastGuard ==
  \A h1, h2 \in Handlers :
    RacedPast(h1, h2) =>
      /\ req[h1].inserted /\ req[h2].inserted
      /\ Len(ledger) >= 2
      /\ settings[req[h1].shop].monthlySpent >=
           req[h1].st.monthlySpent + req[h1].treeCost + req[h2].treeCost

\* C4 witness: each passed the check on the same value, and monthlySpent is
\* now above monthlyLimit
C4_Witness ==
  \E h1, h2 \in Handlers :
    /\ RacedPast(h1, h2)
    /\ req[h1].st.monthlySpent + req[h1].treeCost <= Val(req[h1].st.monthlyLimit)
    /\ req[h2].st.monthlySpent + req[h2].treeCost <= Val(req[h2].st.monthlyLimit)
    /\ settings[req[h1].shop].monthlySpent > Val(settings[req[h1].shop].monthlyLimit)
    /\ settings[req[h1].shop].monthlyLimit = req[h1].st.monthlyLimit

\* C5: after any sequence of deliveries, the same order id delivered again or
\* under both topics included, the ledger holds at most one 'order' row per
\* order id.
C5_OncePerOrder ==
  \A h \in Handlers : Cardinality(OrderRows(req[h].order.id)) <= 1

\* the handler's stages in order; a check may stop (done), a write may throw
StageEdges ==
  {<<"idle", "received">>,
   <<"received", "settings_loaded">>,
   <<"settings_loaded", "enabled">>, <<"settings_loaded", "done">>,
   <<"enabled", "active">>, <<"enabled", "done">>,
   <<"active", "rules_evaluated">>, <<"active", "done">>,
   <<"rules_evaluated", "budget_ok">>, <<"rules_evaluated", "done">>,
   <<"budget_ok", "shop_found">>, <<"budget_ok", "shop_missing">>,
   <<"shop_missing", "shop_found">>, <<"shop_missing", "failed">>,
   <<"shop_found", "ledger_written">>, <<"shop_found", "failed">>,
   <<"ledger_written", "done">>, <<"ledger_written", "failed">>}

C6_Order ==
  \A h \in Handlers :
    (req'[h].topic \in OrderTopics /\ req'[h].pc # req[h].pc) =>
       /\ <<req[h].pc, req'[h].pc>> \in StageEdges
       /\ (req'[h].pc = "done" =>
             req'[h].status = 200
             /\ (req'[h].incremented <=> req[h].pc = "ledger_written"))

C6_IncrementAfterInsert ==
  \A s \in DOMAIN settings :
    settings'[s].monthlySpent # settings[s].monthlySpent =>
      \E h \in Handlers :
        /\ req[h].shop = s
        /\ req[h].pc = "ledger_written" /\ req'[h].pc = "done"
        /\ req[h].inserted
        /\ \E i \in OrderRows(req[h].order.id) :
             ledger[i].trees_planted = req[h].trees
        /\ settings'[s].monthlySpent = settings[s].monthlySpent + req[h].treeCost

C6_FailedInsert ==
  \A h \in Handlers :
    (req[h].pc = "shop_found" /\ req'[h].pc = "failed") =>
       /\ settings' = settings
       /\ ledger' = ledger
       /\ ~req'[h].inserted /\ ~req'[h].incremented

\* C6: every order delivery moves through received, settings-loaded, enabled
\* check, paused check, rules-evaluated, budget check, ledger-written,
\* spend-incremented in that order, stopping with an empty 200 at a check or
\* running to the end; monthlySpent changes for a delivery only after that
\* delivery's ledger row is in the ledger, and a failed insert leaves
\* monthlySpent unchanged.
C6_StageOrder ==
  /\ [][C6_Order /\ C6_IncrementAfterInsert /\ C6_FailedInsert]_vars
  /\ [](\A h \in Handlers : req[h].incremented => req[h].inserted)

\* C6 witness: one delivery ran to the end, another failed at the insert,
\* and monthlySpent holds the cost of the first alone
C6_Witness ==
  \E h1, h2 \in Handlers :
    /\ req[h1].pc = "done" /\ req[h1].inserted /\ req[h1].incremented
    /\ req[h2].pc = "failed" /\ req[h2].shopId # 0 /\ ~req[h2].inserted
    /\ req[h2].shop = req[h1].shop
    /\ settings[req[h1].shop].monthlySpent = req[h1].treeCost
    /\ Len(ledger) = 1

C7_Insert ==
  \A h \in Handlers :
    (~req[h].inserted /\ req'[h].inserted) =>
       /\ FullCount(h) > 0
       /\ ~WouldExceed(h)
       /\ req[h].shop \in DOMAIN shopRecords
       /\ ledger' = Append(ledger,
            [source_type |-> "shopify",
             source_id |-> shopRecords[req[h].shop],
             trees_planted |-> FullCount(h),
             co2_offset_kg |-> Num(20 * FullCount(h)),
             reference_id |-> req[h].order.id,
             reference_type |-> "order"])

C7_Increment ==
  \A h \in Handlers :
    (~req[h].incremented /\ req'[h].incremented) =>
       /\ req[h].inserted
       /\ settings' = [settings EXCEPT ![req[h].shop].monthlySpent = @ + FullCost(h)]

\* C7: a delivery that computed N > 0 trees and passed the budget check
\* inserts exactly one row ('shopify', 'order', trees_planted = N,
\* co2_offset_kg = 20 * N, source_id = the shop's own record id) and then
\* raises that shop's monthlySpent by exactly N * costPerTree.
C7_LedgerRowAndSpend ==
  /\ [][C7_Insert /\ C7_Increment]_vars
  /\ [](\A h \in Handlers :
          (Guarded(h) /\ ~WouldExceed(h) /\ req[h].pc = "done") =>
             req[h].inserted /\ req[h].incremented)

\* C7 witness: a delivery of 3 trees at 0.50 is finished: one row of 3 trees
\* and 60 kg for shop record 1, monthlySpent 1.50
C7_Witness ==
  \E h \in Handlers :
    /\ req[h].pc = "done" /\ req[h].incremented
    /\ req[h].treesToPlant = 300
    /\ Len(ledger) = 1
    /\ ledger[1].trees_planted = 3 /\ ledger[1].co2_offset_kg = Num(60)
    /\ ledger[1].source_id = shopRecords[req[h].shop]
    /\ settings[req[h].shop].monthlySpent = 150

-----------------------------------------------------------------------------
(* Claims about requests served one at a time (SpecSeq) *)

\* the shop's monthlyLimit is a positive number
PositiveLimit(st) == st.monthlyLimit # None /\ Val(st.monthlyLimit) > 0

\* C3: with a positive monthlyLimit and monthlySpent starting at or below
\* it, monthlySpent <= monthlyLimit in every state reached by order
\* webhooks, Flow plant-trees, Flow offset-carbon and loyalty redemptions
\* served one after another.
C3_SequentialWithinLimit ==
  \A s \in DOMAIN settings :
    PositiveLimit(settings[s]) =>
      settings[s].monthlySpent <= Val(settings[s].monthlyLimit)

\* C3 witness: an order and a Flow carbon offset have brought monthlySpent
\* up to the limit, and the redemption that followed was refused with 429
C3_Witness ==
  /\ PositiveLimit(settings[ShopA])
  /\ settings[ShopA].monthlySpent = Val(settings[ShopA].monthlyLimit)
  /\ ~settings[ShopA].isPaused
  /\ \E i \in DOMAIN ledger : ledger[i].reference_type = "order"
  /\ \E i \in DOMAIN flowLog : flowLog[i].actionType = "offset_carbon"
  /\ redemptions = <<>>
  /\ lastResp.op = "redeem" /\ lastResp.status = 429

\* this step answers a loyalty redemption request
RedeemStep == lastResp'.op = "redeem" /\ ops' = ops + 1

\* request r = <<method, shop domain, api key, body>> is a well-formed
\* redemption request of a positive number of points, carrying the shop's key
WellFormedRedeem(r) ==
  /\ r[1] = "POST"
  /\ ~IsNull(r[2]) /\ ~IsNull(r[3]) /\ ~IsNull(r[4])
  /\ Val(r[2]) \in DOMAIN settings
  /\ settings[Val(r[2])].loyaltyEnabled
  /\ settings[Val(r[2])].loyaltyApiKey = r[3]
  /\ Val(r[4]).hasCustomer /\ Val(r[4]).hasApp
  /\ Val(r[4]).pointsSpent >= 1

\* the shop's points per tree
PointsPerTreeOf(shop) == OrDefault(settings[shop].pointsPerTree, DefaultPointsPerTree)

\* the row is a grant of n = floor(pointsSpent / pointsPerTree) >= 1 trees
FloorGrant(row) ==
  /\ row.treesPlanted >= 1
  /\ row.treesPlanted * PointsPerTreeOf(row.shop) <= row.pointsSpent
  /\ row.pointsSpent < (row.treesPlanted + 1) * PointsPerTreeOf(row.shop)

C17_Step ==
  RedeemStep =>
    /\ redemptions' # redemptions =>
         /\ Len(redemptions') = Len(redemptions) + 1
         /\ SubSeq(redemptions', 1, Len(redemptions)) = redemptions
         /\ FloorGrant(redemptions'[Len(redemptions')])
    /\ lastResp'.status = 200 =>
         /\ redemptions' # redemptions
         /\ lastResp'.trees = redemptions'[Len(redemptions')].treesPlanted
    /\ \A r \in RedeemRequests, f \in Faults :
         (/\ LoyaltyRedeem(r[1], r[2], r[3], r[4], f)
          /\ WellFormedRedeem(r)
          /\ Val(r[4]).pointsSpent < PointsPerTreeOf(Val(r[2]))) =>
            /\ lastResp'.status = 400
            /\ UNCHANGED <<redemptions, settings, ledger, flowLog, shopRecords>>

\* C17: an accepted redemption of pointsSpent points grants exactly
\* floor(pointsSpent / pointsPerTree) trees; a redemption for which that is
\* below 1 is answered 400 and creates no redemption record, no spend
\* increment and no ledger row.
C17_RedeemGrantsFloor ==
  /\ [][C17_Step]_vars
  /\ [](\A i \in DOMAIN redemptions : FloorGrant(redemptions[i]))

\* C17 witness: 450 points at 200 per tree were accepted for 2 trees, and a
\* redemption of too few points was then refused with 400
C17_Witness ==
  /\ Len(redemptions) = 1
  /\ redemptions[1].pointsSpent = 450 /\ redemptions[1].treesPlanted = 2
  /\ PointsPerTreeOf(redemptions[1].shop) = 200
  /\ settings[redemptions[1].shop].monthlySpent = 100
  /\ lastResp.op = "redeem" /\ lastResp.status = 400
  /\ lastResp.error = "Minimum points required to plant 1 tree"

\* the failure class of request r = <<method, shop domain, api key, body>>,
\* taking the first check it fails
MissingHeaders(r) == r[1] = "POST" /\ (IsNull(r[2]) \/ IsNull(r[3]))
HeadersPresent(r) == r[1] = "POST" /\ ~IsNull(r[2]) /\ ~IsNull(r[3])
UnknownShop(r) == HeadersPresent(r) /\ Val(r[2]) \notin DOMAIN settings
KnownShop(r) == HeadersPresent(r) /\ Val(r[2]) \in DOMAIN settings
LoyaltyOff(r) == KnownShop(r) /\ ~settings[Val(r[2])].loyaltyEnabled
WrongKey(r) ==
  /\ KnownShop(r) /\ settings[Val(r[2])].loyaltyEnabled
  /\ settings[Val(r[2])].loyaltyApiKey # r[3]
RightKey(r) ==
  /\ KnownShop(r) /\ settings[Val(r[2])].loyaltyEnabled
  /\ settings[Val(r[2])].loyaltyApiKey = r[3]
InvalidBody(r) ==
  /\ RightKey(r)
  /\ \/ IsNull(r[4])
     \/ ~Val(r[4]).hasCustomer \/ ~Val(r[4]).hasApp \/ Val(r[4]).pointsSpent < 1
OverBudget(r) ==
  /\ WellFormedRedeem(r)
  /\ Val(r[4]).pointsSpent >= PointsPerTreeOf(Val(r[2]))
  /\ LET st == settings[Val(r[2])]
         n == Val(r[4]).pointsSpent \div PointsPerTreeOf(Val(r[2]))
     IN /\ PositiveLimit(st)
        /\ st.monthlySpent + n * OrDefault(st.costPerTree, DefaultCostPerTree)
             > Val(st.monthlyLimit)

C18_Step ==
  RedeemStep =>
    /\ \A r \in RedeemRequests, f \in Faults :
         LoyaltyRedeem(r[1], r[2], r[3], r[4], f) =>
           /\ MissingHeaders(r) => lastResp'.status = 400
           /\ UnknownShop(r) => lastResp'.status = 404
           /\ LoyaltyOff(r) => lastResp'.status = 403
           /\ WrongKey(r) => lastResp'.status = 401
           /\ InvalidBody(r) => lastResp'.status = 400
           /\ OverBudget(r) => lastResp'.status = 429
           /\ redemptions' # redemptions => RightKey(r)
    /\ lastResp'.status \in {400, 401, 403, 404, 405, 429} =>
         UNCHANGED <<redemptions, settings, ledger, flowLog, shopRecords>>

\* C18: the redeem endpoint answers missing headers and an invalid body with
\* 400, an unknown shop with 404, loyalty switched off with 403, a key other
\* than the shop's stored key with 401 and an exhausted budget with 429 (each
\* for a request that passed the checks before it); a rejected request leaves
\* the redemptions, monthlySpent and the ledger as they were; and a
\* redemption is created only for a request carrying the shop's current key
\* while loyaltyEnabled is true.
C18_RedeemRejections == [][C18_Step]_vars

\* C18 witness: after one accepted redemption a request with another key was
\* answered 401 and nothing more was written
C18_Witness ==
  /\ lastResp.op = "redeem" /\ lastResp.status = 401
  /\ Len(redemptions) = 1
  /\ settings[ShopA].loyaltyApiKey = Some("aff_1")
  /\ settings[ShopA].monthlySpent = redemptions[1].treesPlanted * 50
  /\ Len(ledger) <= 1

\* this step answers a Flow action request
FlowStep == lastResp'.op \in {"plant_trees", "offset_carbon"} /\ ops' = ops + 1

\* C19: the Flow action endpoints authenticate the caller with the shop's
\* shared secret or API key before acting, so a request that does not present
\* the shop's credential creates no flow log, increments no monthlySpent and
\* writes no ledger row. The handlers read the method, shopify_domain and
\* properties only, so no request presents a credential to them.
C19_FlowRequiresCredential ==
  [][FlowStep => UNCHANGED <<flowLog, settings, ledger>>]_vars

\* this step answers a Flow action or loyalty redemption request
SideStep ==
  lastResp'.op \in {"plant_trees", "offset_carbon", "redeem"} /\ ops' = ops + 1

\* the request was accepted: its flow log or redemption record is written,
\* monthlySpent has grown and the answer is a success
PrimaryKept(shop, log) ==
  /\ lastResp'.status = 200
  /\ Len(log') = Len(log) + 1 /\ log'[Len(log')].shop = shop
  /\ settings'[shop].monthlySpent > settings[shop].monthlySpent

\* the request was accepted and its ledger insert did not fail
LedgerWritten(shop) ==
  /\ lastResp'.status = 200
  /\ shop \in DOMAIN shopRecords
  /\ Len(ledger') = Len(ledger) + 1

C20_Step ==
  SideStep =>
    /\ \A r \in PlantRequests :
         /\ FlowPlantTrees(r[1], r[2], r[3], r[4], "ledger") =>
              /\ lastResp'.status # 500 /\ ledger' = ledger
              /\ ~UNCHANGED <<flowLog, settings>> => PrimaryKept(Val(r[2]), flowLog)
         /\ FlowPlantTrees(r[1], r[2], r[3], r[4], "none") =>
              /\ LedgerWritten(Val(r[2])) => PrimaryKept(Val(r[2]), flowLog)
              /\ lastResp'.status = 200 /\ Val(r[2]) \notin DOMAIN shopRecords =>
                   ledger' = ledger /\ PrimaryKept(Val(r[2]), flowLog)
    /\ \A r \in OffsetRequests :
         /\ FlowOffsetCarbon(r[1], r[2], r[3], r[4], "ledger") =>
              /\ lastResp'.status # 500 /\ ledger' = ledger
              /\ ~UNCHANGED <<flowLog, settings>> => PrimaryKept(Val(r[2]), flowLog)
         /\ FlowOffsetCarbon(r[1], r[2], r[3], r[4], "none") =>
              /\ LedgerWritten(Val(r[2])) => PrimaryKept(Val(r[2]), flowLog)
              /\ lastResp'.status = 200 /\ Val(r[2]) \notin DOMAIN shopRecords =>
                   ledger' = ledger /\ PrimaryKept(Val(r[2]), flowLog)
    /\ \A r \in RedeemRequests :
         /\ LoyaltyRedeem(r[1], r[2], r[3], r[4], "ledger") =>
              /\ lastResp'.status # 500 /\ ledger' = ledger
              /\ ~UNCHANGED <<redemptions, settings>> =>
                   PrimaryKept(Val(r[2]), redemptions)
         /\ LoyaltyRedeem(r[1], r[2], r[3], r[4], "none") =>
              /\ LedgerWritten(Val(r[2])) => PrimaryKept(Val(r[2]), redemptions)
              /\ lastResp'.status = 200 /\ Val(r[2]) \notin DOMAIN shopRecords =>
                   ledger' = ledger /\ PrimaryKept(Val(r[2]), redemptions)

\* C20: in Flow plant-trees, Flow offset-carbon and loyalty redeem a ledger
\* insert that fails, or a missing shop record, never turns the answer into
\* an error and never undoes the flow log or redemption record and the
\* monthlySpent increment written before it: the request is answered 200 with
\* the ledger as it was.
C20_LedgerInsertSecondary == [][C20_Step]_vars

\* C20 witness: a Flow planting, a Flow offset and a redemption were each
\* answered 200 and monthlySpent carries their cost, with no ledger row at all
C20_Witness ==
  /\ lastResp.status = 200 /\ ops = 3
  /\ ledger = <<>>
  /\ Len(redemptions) = 1
  /\ \E i \in DOMAIN flowLog : flowLog[i].actionType = "plant_trees"
  /\ \E i \in DOMAIN flowLog : flowLog[i].actionType = "offset_carbon"
  /\ settings[ShopA].monthlySpent > 0
  /\ ShopA \in DOMAIN shopRecords

\* the budget left on the row h read, and the count it pays for
Remaining(h) == Val(req[h].st.monthlyLimit) - req[h].st.monthlySpent
Affordable(h) ==
  Remaining(h) \div OrElse(req[h].st.costPerTree, DefaultCostPerTree)

\* C21: the order webhook respects the monthly limit by truncation: with
\* remaining budget R = monthlyLimit - monthlySpent and N proposed trees at
\* cost c each, a delivery served to its end has recorded N trees when
\* N * c <= R and floor(R / c) trees otherwise.
C21_TruncateToRemaining ==
  \A h \in Handlers :
    /\ Guarded(h) /\ Truthy(req[h].st.monthlyLimit)
    /\ req[h].pc = "done" /\ req[h].status = 200
    /\ Affordable(h) >= 1
    => \E i \in OrderRows(req[h].order.id) :
         ledger[i].trees_planted =
           IF FullCost(h) <= Remaining(h) THEN FullCount(h) ELSE Affordable(h)

\* handler h read a row with a non-empty rule list in which every rule is
\* disabled, while the legacy fields of the row still hold a trigger
AllDisabled(h) ==
  /\ Loaded(h)
  /\ req[h].hasRow
  /\ ~IsNull(req[h].st.triggerRules)
  /\ Len(Val(req[h].st.triggerRules)) > 0
  /\ \A i \in DOMAIN Val(req[h].st.triggerRules) :
       ~Val(req[h].st.triggerRules)[i].enabled
  /\ req[h].st.triggerType = "fixed" /\ req[h].st.triggerValue > 0

C30_State ==
  \A h \in Handlers :
    AllDisabled(h) =>
       /\ req[h].pc \in {"settings_loaded", "enabled", "active", "done"}
       /\ ~req[h].inserted
       /\ ~req[h].incremented
       /\ req[h].treesToPlant = 0 /\ req[h].trees = 0
       /\ (req[h].pc = "done" => req[h].status = 200)

C30_Step ==
  \A h \in Handlers :
    (AllDisabled(h) /\ req'[h] # req[h]) =>
       /\ ledger' = ledger
       /\ settings' = settings
       /\ shopRecords' = shopRecords

\* C30: the legacy trigger is used only when the shop has no rule list or an
\* empty one. With a non-empty rule list whose rules are all disabled, the
\* order webhook writes no ledger row, no shop record and no spend for any
\* order and answers an empty 200, although triggerType/triggerValue still
\* hold a trigger.
C30_DisabledListPlantsNothing == []C30_State /\ [][C30_Step]_vars

\* C30 witness: an enabled, unpaused shop with an all-disabled rule list has
\* answered 200 to an order its legacy trigger alone would have planted for,
\* and the ledger is empty
C30_Witness ==
  \E h \in Handlers :
    /\ AllDisabled(h) /\ req[h].pc = "done" /\ req[h].status = 200
    /\ req[h].st.isEnabled /\ ~req[h].st.isPaused
    /\ Outcome([req[h].st EXCEPT !.triggerRules = None], req[h].order, TRUE).trees > 0
    /\ ~Outcome([req[h].st EXCEPT !.triggerRules = None], req[h].order, TRUE).rejected
    /\ ledger = <<>>

-----------------------------------------------------------------------------
(* Claims about the dashboard and the requests around it (SpecDash) *)

\* C22: the dashboard's monthly progress is min(monthlySpent / monthlyLimit
\* * 100, 100) when a monthly limit is set and 0 when the limit is null, so
\* it lies within 0..100 even when monthlySpent exceeds the limit. (The
\* percentage is held in hundredths, cut off below that.)
C22_MonthlyProgress ==
  lastResp.op = "dashboard" =>
    LET st == settings[lastResp.shop]
        p == lastResp.monthlyProgress
    IN /\ 0 <= p /\ p <= Num(100)
       /\ IsNull(st.monthlyLimit) => p = 0
       /\ Truthy(st.monthlyLimit) =>
            IF st.monthlySpent >= Val(st.monthlyLimit)
              THEN p = Num(100)
              ELSE /\ p * Val(st.monthlyLimit) <= st.monthlySpent * 10000
                   /\ st.monthlySpent * 10000 < (p + 1) * Val(st.monthlyLimit)

\* C22 witness: the page was loaded with monthlySpent above the limit and
\* shows 100
C22_Witness ==
  /\ lastResp.op = "dashboard"
  /\ Truthy(settings[lastResp.shop].monthlyLimit)
  /\ settings[lastResp.shop].monthlySpent > Val(settings[lastResp.shop].monthlyLimit)
  /\ lastResp.monthlyProgress = Num(100)

\* this step answers an order webhook delivery
OrderStep == lastResp'.op = "order" /\ ops' = ops + 1

\* nothing has been spent in the current month: no Flow action or redemption
\* was ever served and every ledger row is of an earlier month
FreshMonth ==
  /\ clock > 0
  /\ flowLog = <<>> /\ redemptions = <<>>
  /\ \A i \in DOMAIN created : created[i] < clock

\* with monthlySpent at zero the shop's row lets the order through
FitsFreshBudget(shop) ==
  LET st == [settings[shop] EXCEPT !.monthlySpent = 0]
      out == Outcome(st, DashOrder, TRUE)
  IN st.isEnabled /\ ~st.isPaused /\ out.plant /\ ~out.rejected

\* C23: monthlySpent is reset to zero by the resetMonthlySpent action and
\* when a monthly boundary passes: the first order of a new month is judged
\* against a fresh budget and recorded, whatever was spent the month before,
\* without any merchant action.
C23_MonthlyReset ==
  [][/\ ops' = ops + 1 /\ lastResp'.op = "resetMonthlySpent"
          /\ lastResp'.status = 200 =>
          \E shop \in DOMAIN settings : settings' = ResetOneShop(shop)
     /\ OrderStep /\ FreshMonth =>
          \A shop \in DOMAIN settings :
            /\ OrderWebhook(shop, "ORDERS_PAID", DashOrder, TRUE, TRUE, TRUE)
            /\ FitsFreshBudget(shop)
            => Len(ledger') = Len(ledger) + 1]_vars

\* the trees on the ledger rows of the shop record numbered shopId
TotalTrees(rows, shopId) ==
  SumTrees(rows, {i \in DOMAIN rows : rows[i].source_id = shopId})

\* C24: the impact ledger is append-only. No step of any entry point (order
\* webhook, Flow actions, loyalty redeem, dashboard actions, uninstall
\* webhook) changes or removes a row that is there: the rows before the step
\* are the first rows after it, unchanged and in place, and no shop's total
\* of trees goes down.
C24_LedgerAppendOnly ==
  [][/\ Len(ledger') >= Len(ledger)
     /\ \A i \in DOMAIN ledger : ledger'[i] = ledger[i] /\ created'[i] = created[i]
     /\ \A id \in 1..2 : TotalTrees(ledger', id) >= TotalTrees(ledger, id)]_vars

\* C24 witness: the shop was uninstalled and the rows an order and a Flow
\* action wrote for it are still there
C24_Witness ==
  /\ lastResp.op = "uninstalled" /\ ShopA \in inactive
  /\ Len(ledger) = 2
  /\ ledger[1].source_id = shopRecords[ShopA]
  /\ ledger[2].source_id = shopRecords[ShopA]
  /\ ledger[1].source_type # ledger[2].source_type

\* monthlySpent is what syncMonthlySpent would store for the shop
InSync(shop) ==
  /\ shop \in DOMAIN shopRecords /\ shop \in DOMAIN settings
  /\ settings[shop].monthlySpent = CalculatedSpent(shop)

\* this step is an order webhook, Flow action or redemption that succeeded
\* in full: answered 200 with its ledger row written
RecordedStep ==
  /\ ops' = ops + 1
  /\ lastResp'.op \in {"order", "plant_trees", "offset_carbon", "redeem"}
  /\ lastResp'.status = 200
  /\ Len(ledger') = Len(ledger) + 1

\* C26: with a constant costPerTree and within one month the incrementally
\* kept monthlySpent equals what syncMonthlySpent would compute (costPerTree
\* times the trees on the shop's ledger rows of the three source types): a
\* successful order webhook, Flow action or redemption takes a shop from
\* one such state to another, so a sync after any sequence of them changes
\* nothing.
C26_SpendMatchesLedger ==
  [][\A shop \in Shops : InSync(shop) /\ RecordedStep => InSync(shop)']_vars

\* this step is a request made for shop: an order delivery, a Flow action or
\* redemption naming it, or an action of its dashboard
ActsFor(shop) ==
  \/ \E insertOk \in BOOLEAN, updateOk \in BOOLEAN :
       OrderWebhook(shop, "ORDERS_PAID", DashOrder, TRUE, insertOk, updateOk)
  \/ \E r \in DashPlantRequests, fault \in {"none", "ledger"} :
       r[2] = Some(shop) /\ FlowPlantTrees(r[1], r[2], r[3], r[4], fault)
  \/ \E r \in DashOffsetRequests, fault \in {"none", "ledger"} :
       r[2] = Some(shop) /\ FlowOffsetCarbon(r[1], r[2], r[3], r[4], fault)
  \/ \E r \in DashRedeemRequests, fault \in {"none", "ledger"} :
       r[2] = Some(shop) /\ LoyaltyRedeem(r[1], r[2], r[3], r[4], fault)
  \/ TogglePause(shop)
  \/ DashboardLoad(shop)
  \/ \E form \in DashForms : UpdateSettings(shop, form)
  \/ SyncMonthlySpent(shop)
  \/ ResetMonthlySpent(shop)
  \/ \E on \in BOOLEAN : UpdateLoyaltySettings(shop, on, None)
  \/ \E key \in Keys : GenerateApiKey(shop, key)
  \/ RevokeApiKey(shop)

\* the step leaves the other shop's settings row as it is, present or absent
Untouched(other) ==
  /\ other \in DOMAIN settings <=> other \in DOMAIN settings'
  /\ other \in DOMAIN settings => settings'[other] = settings[other]

\* C27: operations are isolated per shop. An order webhook, Flow action,
\* redemption or dashboard action for one shop leaves the other shop's
\* settings row (monthlySpent and isPaused included) as it is, and every
\* ledger row it writes carries the acting shop's record id as source_id.
C27_ShopIsolation ==
  [][settings' # settings \/ ledger' # ledger =>
       \A shop \in Shops :
         ActsFor(shop) =>
           /\ \A other \in Shops \ {shop} : Untouched(other)
           /\ \A i \in DOMAIN ledger' \ DOMAIN ledger :
                /\ shop \in DOMAIN shopRecords'
                /\ ledger'[i].source_id = shopRecords'[shop]]_vars

\* C27 witness: shop B has spent on a Flow planting, shop A on an order, and
\* A's reset has cleared A's monthlySpent alone; each ledger row carries the
\* id of the shop it was written for
C27_Witness ==
  /\ lastResp.op = "resetMonthlySpent" /\ lastResp.status = 200
  /\ settings[ShopA].monthlySpent = 0
  /\ ShopB \in DOMAIN settings /\ settings[ShopB].monthlySpent = 100
  /\ Len(ledger) = 2
  /\ ledger[1].source_type = "shopify_flow" /\ ledger[1].source_id = shopRecords[ShopB]
  /\ ledger[2].source_type = "shopify" /\ ledger[2].source_id = shopRecords[ShopA]
  /\ shopRecords[ShopA] # shopRecords[ShopB]

\* a redeem request, answered
DashRedeemStep == ops' = ops + 1 /\ lastResp'.op = "redeem"

\* key was handed to shop and has since been replaced or revoked
Retired(shop, key) == <<shop, key, FALSE>> \in issued

\* shop has held a key and holds none since the last revokeApiKey
Revoked(shop) ==
  /\ \E p \in issued : p[1] = shop
  /\ \A p \in issued : p[1] = shop => ~p[3]

\* the request wrote nothing
NothingWritten == UNCHANGED <<redemptions, settings, ledger, flowLog, shopRecords>>

\* C28 as stated: after generateApiKey or revokeApiKey every later redeem
\* request presenting a key the shop held before is rejected with 401 and
\* writes nothing, and after revokeApiKey no key at all is accepted.
C28_RetiredKeyAnswered401 ==
  [][DashRedeemStep =>
       \A r \in DashRedeemRequests, fault \in {"none", "ledger"} :
         LoyaltyRedeem(r[1], r[2], r[3], r[4], fault) =>
           /\ Retired(Val(r[2]), Val(r[3])) =>
                lastResp'.status = 401 /\ NothingWritten
           /\ Revoked(Val(r[2])) =>
                lastResp'.status \in {401, 403} /\ NothingWritten]_vars

\* C28, amended: a replaced or revoked key is never accepted again. A redeem
\* request presenting it is rejected and writes nothing: with 401 while the
\* shop's loyaltyEnabled is true, with 403 once loyalty has been switched
\* off (that check comes first). After revokeApiKey no key at all is accepted
\* until a new one is generated.
C28_RetiredKeyRejected ==
  [][DashRedeemStep =>
       \A r \in DashRedeemRequests, fault \in {"none", "ledger"} :
         LoyaltyRedeem(r[1], r[2], r[3], r[4], fault) =>
           /\ Retired(Val(r[2]), Val(r[3])) =>
                /\ lastResp'.status =
                     IF settings[Val(r[2])].loyaltyEnabled THEN 401 ELSE 403
                /\ NothingWritten
           /\ Revoked(Val(r[2])) =>
                /\ lastResp'.status =
                     IF settings[Val(r[2])].loyaltyEnabled THEN 401 ELSE 403
                /\ NothingWritten]_vars

\* C28 witness: shop A, the only shop with settings, has replaced its first
\* key by a third one, and a redeem request that can only have carried one of
\* the two replaced keys was answered 401 with nothing redeemed
C28_Witness ==
  /\ DOMAIN settings = {ShopA}
  /\ issued = {<<ShopA, "aff_1", FALSE>>, <<ShopA, "aff_2", FALSE>>,
               <<ShopA, "aff_3", TRUE>>}
  /\ settings[ShopA].loyaltyApiKey = Some("aff_3")
  /\ lastResp.op = "redeem" /\ lastResp.status = 401
  /\ redemptions = <<>>

\* the last request was an authenticated GET /api/loyalty/rates for shop A
RatesExtended ==
  lastResp.op = "rates" /\ lastResp.status = 200 /\ lastResp.extended

\* C29: an authenticated rates response has monthlyRemaining =
\* max(0, monthlyLimit - monthlySpent) and treesRemainingThisMonth =
\* floor(monthlyRemaining / costPerTree) whenever a monthly limit is set, and
\* both null only when none is set; an exhausted budget reports 0 trees.
C29_RatesRemaining ==
  RatesExtended =>
    IF IsNull(lastResp.monthlyLimit)
      THEN IsNull(lastResp.monthlyRemaining)
           /\ IsNull(lastResp.treesRemainingThisMonth)
      ELSE LET remaining == Max(0, Val(lastResp.monthlyLimit) - lastResp.monthlySpent)
           IN /\ lastResp.monthlyRemaining = Some(remaining)
              /\ lastResp.treesRemainingThisMonth =
                   Some(remaining \div OrDefault(settings[ShopA].costPerTree,
                                                 DefaultCostPerTree))

-----------------------------------------------------------------------------
(* Claims about the rule evaluator (SpecEval) *)

\* what rule r contributes when it is the only rule of the drawn row,
\* evaluated on the drawn order
OwnContribution(r) ==
  IF r.enabled
    THEN Evaluation([evalIn.st EXCEPT !.triggerRules = Some(<<r>>)],
                    evalIn.order, evalIn.apiOk).treesToPlant
    ELSE 0

RECURSIVE SumContributions(_)
SumContributions(rules) ==
  IF rules = <<>> THEN 0
  ELSE Plus(OwnContribution(Head(rules)), SumContributions(Tail(rules)))

\* C8: with a rule list, the tree count of an order is the sum over the
\* rules of what each enabled rule contributes when evaluated on its own on
\* the same order; disabled rules contribute 0. (The sum is the handler's
\* own +=, so a NaN contribution makes the sum NaN.)
C8_SumOfEnabledRules ==
  (evalOut.done /\ HasRuleList(evalIn.st)) =>
     /\ evalOut.treesToPlant = SumContributions(Val(evalIn.st.triggerRules))
     /\ (~IsNaN(evalOut.treesToPlant) => Num(evalOut.trees) = evalOut.treesToPlant)

\* C8 witness: two enabled rules and each contributes trees of its own
C8_Witness ==
  /\ evalOut.done
  /\ HasRuleList(evalIn.st)
  /\ Len(EnabledRules(evalIn.st)) = 2
  /\ OwnContribution(Val(evalIn.st.triggerRules)[1]) > 0
  /\ OwnContribution(Val(evalIn.st.triggerRules)[2]) > 0
  /\ Val(evalIn.st.triggerRules)[1].type # Val(evalIn.st.triggerRules)[2].type
  /\ evalOut.trees > 2

\* the drawn row is a single trigger of type ty: the legacy field, or a rule
\* list holding one enabled rule
SingleTrigger(ty) ==
  IF HasRuleList(evalIn.st)
    THEN /\ Len(Val(evalIn.st.triggerRules)) = 1
         /\ Val(evalIn.st.triggerRules)[1].enabled
         /\ Val(evalIn.st.triggerRules)[1].type = ty
    ELSE evalIn.st.triggerType = ty

SingleValue ==
  IF HasRuleList(evalIn.st)
    THEN Val(evalIn.st.triggerRules)[1].value
    ELSE evalIn.st.triggerValue

\* C9: under a fixed trigger with value v, legacy or single rule, the tree
\* count of every evaluated order is floor(v), whatever the order holds.
C9_FixedIsFloor ==
  (evalOut.done /\ ~evalOut.stop /\ SingleTrigger("fixed")) =>
     evalOut.trees = Floor(SingleValue)

\* C10: under a percentage trigger with value p the tree count n of every
\* evaluated order whose total is a number is floor(orderTotal * p/100 / costPerTree):
\* n * costPerTree <= orderTotal * p/100 < (n + 1) * costPerTree.
C10_PercentageTrees ==
  (evalOut.done /\ ~evalOut.stop /\ SingleTrigger("percentage")
   /\ ~IsNaN(TotalAmount(evalIn.order))) =>
     LET n == evalOut.trees
         donation100 == TotalAmount(evalIn.order) * SingleValue
         c == OrElse(evalIn.st.costPerTree, DefaultCostPerTree)
     IN /\ evalOut.treesToPlant = Num(n)
        /\ n * c * 10000 <= donation100
        /\ donation100 < (n + 1) * c * 10000

\* C10 witness: total 100, p 5, costPerTree 0.5 gives 10 trees
C10_Witness ==
  /\ evalOut.done
  /\ SingleTrigger("percentage")
  /\ ~HasRuleList(evalIn.st)
  /\ TotalAmount(evalIn.order) = 10000
  /\ SingleValue = 500
  /\ CostPerTree(evalIn.st) = 50
  /\ evalOut.trees = 10

\* the drawn row's rule list, and the list without its i-th rule
DrawnRules == Val(evalIn.st.triggerRules)
Without(rules, i) == SubSeq(rules, 1, i - 1) \o SubSeq(rules, i + 1, Len(rules))

\* what the rules other than the i-th come to on the drawn order
OthersTrees(i) ==
  IF Without(DrawnRules, i) = <<>> THEN 0
  ELSE Evaluation([evalIn.st EXCEPT !.triggerRules = Some(Without(DrawnRules, i))],
                  evalIn.order, evalIn.apiOk).treesToPlant

\* the drawn order's total is a number (a missing total_price reads as 0)
NumericTotal == ~IsNaN(TotalAmount(evalIn.order))

\* C11: an enabled threshold rule with value t adds n = floor(orderTotal / t)
\* trees to what the other rules come to (n * t <= orderTotal < (n + 1) * t),
\* except that it adds 0 when its own minimum order value is set and the
\* total is below it; the other rules' trees are the same either way.
C11_ThresholdRule ==
  (evalOut.done /\ HasRuleList(evalIn.st) /\ NumericTotal) =>
    \A i \in DOMAIN DrawnRules :
      (DrawnRules[i].enabled /\ DrawnRules[i].type = "threshold") =>
        LET t == DrawnRules[i].value
            min == DrawnRules[i].minOrderValue
            total == TotalAmount(evalIn.order)
            added == evalOut.treesToPlant - OthersTrees(i)
            n == added \div 100
        IN /\ added = n * 100
           /\ IF ~IsNull(min) /\ total < Val(min)
                THEN n = 0
                ELSE n * t <= total /\ total < (n + 1) * t

\* C11 witness: total 40, a threshold rule of 25 without a minimum (1 tree,
\* from 1.6) next to one with minimum 50 (0 trees)
C11_Witness ==
  /\ evalOut.done
  /\ HasRuleList(evalIn.st)
  /\ TotalAmount(evalIn.order) = 4000
  /\ DrawnRules = <<Rule("threshold", TRUE, 2500, None, None),
                    Rule("threshold", TRUE, 2500, None, Some(5000))>>
  /\ evalOut.trees = 1

\* the trees the drawn list's i-th rule adds to what the others come to
AddedTrees(i) == evalOut.treesToPlant - OthersTrees(i)

\* the sum of the drawn order's line-item quantities (a line item without a
\* quantity counts once)
RECURSIVE SumQuantities(_)
SumQuantities(lineItems) ==
  IF lineItems = <<>> THEN 0
  ELSE OrElse(Head(lineItems).quantity, 1) + SumQuantities(Tail(lineItems))

\* C12: an enabled per_product rule with value v >= 0, v < 1 included, adds
\* floor(v) times the sum of the order's line-item quantities.
C12_PerProductRule ==
  (evalOut.done /\ HasRuleList(evalIn.st) /\ NumericTotal) =>
    \A i \in DOMAIN DrawnRules :
      (DrawnRules[i].enabled /\ DrawnRules[i].type = "per_product") =>
        AddedTrees(i) =
          Num((DrawnRules[i].value \div 100) * SumQuantities(evalIn.order.line_items))

\* the product of a line item carries tag T (compared without case)
CarriesTag(item, T) ==
  /\ item.product_id.kind # "null"
  /\ ToGid(item.product_id) \in DOMAIN Catalog
  /\ \E t \in Catalog[ToGid(item.product_id)] : ToLower(t) = ToLower(T)

RECURSIVE TaggedUnits(_, _)
TaggedUnits(lineItems, T) ==
  IF lineItems = <<>> THEN 0
  ELSE (IF CarriesTag(Head(lineItems), T)
          THEN OrElse(Head(lineItems).quantity, 1) ELSE 0)
       + TaggedUnits(Tail(lineItems), T)

\* C13: with the tag lookup answered, an enabled per_tag rule with value v
\* and tag T adds floor(v) trees for each unit of each line item whose
\* product carries T (compared without case), and 0 when T is unset or blank
\* or no line item's product carries it.
C13_PerTagRule ==
  (evalOut.done /\ HasRuleList(evalIn.st) /\ NumericTotal /\ evalIn.apiOk) =>
    \A i \in DOMAIN DrawnRules :
      (DrawnRules[i].enabled /\ DrawnRules[i].type = "per_tag") =>
        LET T == DrawnRules[i].tag
        IN AddedTrees(i) =
             IF IsNull(T) \/ Trim(Val(T)) = "" THEN 0
             ELSE Num((DrawnRules[i].value \div 100)
                      * TaggedUnits(evalIn.order.line_items, Trim(Val(T))))

\* the drawn legacy row turned into a single enabled rule of the same type
\* and value
AsSingleRule ==
  [evalIn.st EXCEPT !.triggerRules =
     Some(<<Rule(evalIn.st.triggerType, TRUE, evalIn.st.triggerValue, None, None)>>)]

\* C14: without a rule list the legacy triggerType / triggerValue gives every
\* order the tree count the rule of that type and value gives it, and an
\* order below a global minOrderValue > 0 is skipped whole, whatever the
\* trigger type.
C14_LegacyAsRule ==
  (evalOut.done /\ ~HasRuleList(evalIn.st) /\ NumericTotal) =>
    IF /\ ~IsNull(evalIn.st.minOrderValue)
       /\ Val(evalIn.st.minOrderValue) > 0
       /\ TotalAmount(evalIn.order) < Val(evalIn.st.minOrderValue)
      THEN evalOut.stop /\ ~evalOut.plant /\ evalOut.trees = 0
      ELSE LET asRule == Outcome(AsSingleRule, evalIn.order, evalIn.apiOk)
           IN evalOut.plant = asRule.plant /\ evalOut.trees = asRule.trees

\* the drawn row with its per_tag rules switched off
WithoutPerTag ==
  [evalIn.st EXCEPT !.triggerRules =
     Some([i \in DOMAIN DrawnRules |->
             IF DrawnRules[i].type = "per_tag"
               THEN [DrawnRules[i] EXCEPT !.enabled = FALSE]
               ELSE DrawnRules[i]])]

\* the tag lookup is made for the drawn order: an enabled per_tag rule and at
\* least one line item
LookupMade ==
  /\ HasRuleList(evalIn.st)
  /\ \E i \in DOMAIN DrawnRules :
       DrawnRules[i].enabled /\ DrawnRules[i].type = "per_tag"
  /\ evalIn.order.line_items # <<>>

\* C15: when the tag lookup fails the webhook does not fail: every per_tag
\* rule adds 0, the trees are what the other enabled rules give on their own,
\* and the handler goes on to the guard and the write with them.
C15_TagLookupFailure ==
  (evalOut.done /\ LookupMade /\ ~evalIn.apiOk) =>
     /\ ~evalOut.stop
     /\ evalOut.treesToPlant =
          Evaluation(WithoutPerTag, evalIn.order, TRUE).treesToPlant
     /\ \A i \in DOMAIN DrawnRules :
          (DrawnRules[i].enabled /\ DrawnRules[i].type = "per_tag"
           /\ ~IsNaN(evalOut.treesToPlant)) => AddedTrees(i) = 0
     /\ (evalOut.plant <=>
           (~IsNaN(evalOut.treesToPlant) /\ evalOut.treesToPlant > 0))

\* C15 witness: a fixed rule of 1 and a per_tag rule for "Eco" on an order of
\* two units of a product tagged Eco; the lookup fails and 1 tree goes on
\* (3 with the lookup answered)
C15_Witness ==
  /\ evalOut.done
  /\ LookupMade
  /\ ~evalIn.apiOk
  /\ DrawnRules = <<Rule("fixed", TRUE, 100, None, None),
                    Rule("per_tag", TRUE, 100, Some("Eco"), None)>>
  /\ evalIn.order.line_items = <<Item(NumId(1), Some(2))>>
  /\ evalOut.plant /\ evalOut.trees = 1
  /\ Outcome(evalIn.st, evalIn.order, TRUE).trees = 3

\* the outcome of the drawn order with its total_price replaced by "0"
AsZeroTotal ==
  Outcome(evalIn.st, [evalIn.order EXCEPT !.total_price = Some(0)], evalIn.apiOk)

\* C16: an order whose total_price is missing or not a number is evaluated
\* as the same order with total 0 (threshold and percentage give 0, fixed,
\* per_product and per_tag give their normal trees, which are recorded), and
\* an order whose trees come to zero or less records nothing.
C16_MissingTotalAsZero ==
  evalOut.done =>
     /\ (IsNull(evalIn.order.total_price) \/ ~NumericTotal) =>
           /\ evalOut.plant = AsZeroTotal.plant
           /\ evalOut.trees = AsZeroTotal.trees
     /\ (NumericTotal /\ evalOut.treesToPlant <= 0) => ~evalOut.plant

\* the row left by loading the dashboard for row st and saving the page
\* unchanged: the form carries the rule list the loader built and the limit
Migrated(st) ==
  UpdatedRow(st, Form(Some(LoadedRules(st)), st.monthlyLimit, st.triggerType,
                      Some(st.triggerValue), st.minOrderValue))

\* C25: migrating a legacy configuration through the dashboard preserves
\* behaviour: for a row with no rule list, the order webhook counts the same
\* trees for the order under the row as loaded and saved unchanged as it
\* does under the row itself.
C25_MigrationPreserves ==
  evalOut.done /\ ~HasRuleList(evalIn.st) =>
    Outcome(Migrated(evalIn.st), evalIn.order, evalIn.apiOk).trees = evalOut.trees

====
